---- MODULE Spec2Model ----
(***************************************************************************)
(* Model of the LSP gateway of horizon (src-tauri/src/lsp):                *)
(*   - server_management.rs : the active-server registry, start_lsp_server *)
(*     and the background launch thread it spawns;                         *)
(*   - servers/rust.rs      : the Rust adapter's process lifecycle;        *)
(*   - websocket_manager.rs : the WebSocket gateway's start/stop and its   *)
(*     listener launch thread.                                             *)
(* Strings that the code transforms (the language argument) are sequences  *)
(* of one-character strings, so that to_lowercase is computed.             *)
(***************************************************************************)
EXTENDS Integers, Sequences, FiniteSets, TLC

VARIABLES
    active_servers,   \* ACTIVE_SERVERS: HashMap<String, bool>, a function language -> flag
    calls,            \* the start_lsp_server invocations, in the order they were issued
    threads,          \* the launch threads spawned by start_lsp_server, in spawn order
    analyzer_exists,  \* environment: whether the rust-analyzer executable can be spawned
    WS_SERVER_RUNNING,\* AtomicBool
    WS_MANAGER,       \* Option<WebSocketManager>: <<>> or <<id of the stored manager>>
    ws_calls,         \* the gateway command invocations, in the order they were issued
    ws_threads,       \* the listener launch threads spawned by start_lsp_websocket_server
    bound_others,     \* environment: the ports bound by other processes
    listeners,        \* per WebSocketManager created, its listener: <<>> or <<port>>
    rust_analyzer_process, \* Option<Child>: <<>> or <<id of the child process>>
    is_initialized,   \* Mutex<bool> of the adapter
    lsp_connection,   \* Option<LspProcessConnection>: <<>> or <<id of the child it talks to>>
    notification_tx,  \* Option<UnboundedSender>: <<>> or <<id of the child it serves>>
    processes,        \* the child processes spawned so far: "running" or "killed"
    child_inbox,      \* the messages written to a child's stdin, in order
    document_data,    \* DashMap uri -> DocumentData, a function on the cached uris
    document_states,  \* DashMap uri -> text, a function on the tracked uris
    adapter_calls,    \* the adapter's handler invocations, in the order they were issued
    notification_tasks, \* the number of notification tasks the adapter has spawned
    published,        \* the diagnostics relayed to the front end's client, in order
    root_calls,       \* the find_project_root invocations, in the order they were issued
    next_id,          \* the connection's next correlation id
    pending,          \* the connection's table: in-flight request id -> pending slot
    requests,         \* the requests sent on the connection, each with its pending slot
    notification_queue, \* the decoded notifications enqueued for the drain task
    received,         \* the values the reader task has decoded, each with what became of it
    reader            \* the reader task: "running" or "crashed"

registry_vars == <<active_servers, calls, threads, analyzer_exists>>
gateway_vars == <<WS_SERVER_RUNNING, WS_MANAGER, ws_calls, ws_threads, bound_others, listeners>>
process_vars == <<rust_analyzer_process, is_initialized, lsp_connection, notification_tx,
                  processes, notification_tasks>>
document_vars == <<document_data, document_states, published>>
adapter_vars == <<rust_analyzer_process, is_initialized, lsp_connection, notification_tx,
                  processes, child_inbox, document_data, document_states, adapter_calls,
                  notification_tasks, published>>
root_vars == <<root_calls>>
connection_vars == <<next_id, pending, requests, notification_queue, received, reader>>
other_vars == <<root_vars, connection_vars>>
vars == <<active_servers, calls, threads, analyzer_exists,
          WS_SERVER_RUNNING, WS_MANAGER, ws_calls, ws_threads, bound_others, listeners,
          rust_analyzer_process, is_initialized, lsp_connection, notification_tx,
          processes, child_inbox, document_data, document_states, adapter_calls,
          notification_tasks, published,
          root_calls, next_id, pending, requests, notification_queue, received, reader>>

None == "None"

(***************************************************************************)
(* Bounds                                                                  *)
(***************************************************************************)
\* start_lsp_server invocations in one behaviour
MaxCalls == 2
\* front-end initialize requests served by one adapter
MaxInits == 1
\* gateway commands (start, stop) invoked in one behaviour
MaxWsCalls == 3
\* document handler invocations and diagnostics notifications in one behaviour
MaxDocCalls == 4
\* document notifications whose handler tasks run concurrently
MaxTasks == 2
\* initialize and shutdown invocations on one adapter in one behaviour
MaxServerCalls == 3
\* completion, hover, definition, references and formatting requests in one behaviour
MaxRequests == 2
\* find_project_root invocations in one behaviour
MaxRootCalls == 2
\* document notifications and child notifications handled next to each other
MaxDrainCalls == 3
\* requests sent on one Process Connection in one behaviour
MaxConnRequests == 2
\* values the reader task decodes in one behaviour
MaxMessages == 3

(***************************************************************************)
(* Strings                                                                 *)
(***************************************************************************)
LowerOf == [c \in {"R", "U", "S", "T", "N", "K", "O", "W", "G", "E", "I", "C"} |->
              CASE c = "R" -> "r" [] c = "U" -> "u" [] c = "S" -> "s" [] c = "T" -> "t"
                [] c = "N" -> "n" [] c = "K" -> "k" [] c = "O" -> "o" [] c = "W" -> "w"
                [] c = "G" -> "g" [] c = "E" -> "e" [] c = "I" -> "i" [] c = "C" -> "c"]

\* char::to_lowercase on the characters the inputs use
lower_char(c) == IF c \in DOMAIN LowerOf THEN LowerOf[c] ELSE c

\* String::to_lowercase
to_lowercase(s) == [i \in DOMAIN s |-> lower_char(s[i])]

s_rust == <<"r", "u", "s", "t">>
s_python == <<"p", "y", "t", "h", "o", "n">>
s_javascript == <<"j", "a", "v", "a", "s", "c", "r", "i", "p", "t">>
s_typescript == <<"t", "y", "p", "e", "s", "c", "r", "i", "p", "t">>
s_unknown == <<"u", "n", "k", "n", "o", "w", "n">>
s_empty == <<>>

(***************************************************************************)
(* Inputs of start_lsp_server                                              *)
(***************************************************************************)
\* A file path: whether Path::exists holds for it and what Path::extension
\* returns for it (an Option, here a sequence of at most one element).
Paths ==
    { [name |-> "/x/y.rs", exists |-> TRUE, extension |-> <<"rs">>],
      [name |-> "/x/y.py", exists |-> TRUE, extension |-> <<"py">>],
      [name |-> "/x/y.js", exists |-> TRUE, extension |-> <<"js">>],
      [name |-> "/x/y.ts", exists |-> TRUE, extension |-> <<"ts">>],
      [name |-> "/x/notes.txt", exists |-> TRUE, extension |-> <<"txt">>],
      [name |-> "/x/Makefile", exists |-> TRUE, extension |-> <<>>],
      [name |-> "/x/gone.rs", exists |-> FALSE, extension |-> <<"rs">>] }

Languages ==
    { s_rust, <<"R", "U", "S", "T">>, s_python, s_javascript, s_typescript, s_unknown,
      <<"U", "n", "K", "n", "o", "w", "n">>, s_empty }

\* The inputs of the launch specifications: calls that pass validation in
\* both ways (explicit and inferred language), and one that does not.
LaunchPaths == { p \in Paths : p.name \in {"/x/y.rs", "/x/gone.rs"} }
LaunchLanguages == { s_rust, s_unknown }

(***************************************************************************)
(* server_management.rs                                                    *)
(***************************************************************************)
get_supported_languages == <<s_rust>>

get_recognized_languages == <<s_rust, s_javascript, s_typescript, s_python>>

contains(list, x) == \E i \in DOMAIN list : list[i] = x

\* the match on the extension, lines 50-56
match_extension_swapped(extension, normalized_language) ==
    CASE extension = "rs" -> s_python
      [] extension = "py" -> s_rust
      [] extension = "js" -> s_javascript
      [] extension = "ts" -> s_typescript
      [] OTHER -> normalized_language

match_extension(extension, normalized_language) ==
    CASE extension = "rs" -> s_rust
      [] extension = "py" -> s_python
      [] extension = "js" -> s_javascript
      [] extension = "ts" -> s_typescript
      [] OTHER -> normalized_language

\* lines 46-59: lower-casing, then inference when the language is unknown or empty
normalize(language, path) ==
    LET normalized_language == to_lowercase(language)
    IN  IF normalized_language = s_unknown \/ normalized_language = s_empty
        THEN IF path.extension # <<>>
             THEN match_extension(path.extension[1], normalized_language)
             ELSE normalized_language
        ELSE normalized_language

NoResult == [ok |-> FALSE, kind |-> None, language |-> <<>>, path |-> None, supported |-> <<>>]

PathNotFound(path) ==
    [ok |-> FALSE, kind |-> "PathNotFound", language |-> <<>>, path |-> path.name,
     supported |-> <<>>]

UnsupportedLanguage(normalized_language) ==
    [ok |-> FALSE, kind |-> "UnsupportedLanguage", language |-> normalized_language,
     path |-> None, supported |-> get_supported_languages]

AlreadyRunning(normalized_language) ==
    [ok |-> TRUE, kind |-> "AlreadyRunning", language |-> normalized_language,
     path |-> None, supported |-> <<>>]

Started(normalized_language) ==
    [ok |-> TRUE, kind |-> "Started", language |-> normalized_language,
     path |-> None, supported |-> <<>>]

\* lines 36-69: the checks that precede the registry; the result when one of
\* them fails, NoResult when the call goes on to the registry
validate_language_first(language, path) ==
    IF ~contains(get_supported_languages, normalize(language, path))
    THEN UnsupportedLanguage(normalize(language, path))
    ELSE IF ~path.exists THEN PathNotFound(path) ELSE NoResult

validate_no_language_check(language, path) ==
    IF ~path.exists THEN PathNotFound(path) ELSE NoResult

validate(language, path) ==
    IF ~path.exists
    THEN PathNotFound(path)
    ELSE IF ~contains(get_supported_languages, normalize(language, path))
         THEN UnsupportedLanguage(normalize(language, path))
         ELSE NoResult

NewCall(language, path) ==
    [language |-> language, path |-> path,
     normalized_language |-> IF path.exists THEN normalize(language, path) ELSE <<>>,
     is_server_running |-> FALSE,
     pc |-> IF validate(language, path) = NoResult THEN "read" ELSE "done",
     result |-> validate(language, path),
     inserted |-> FALSE, thread |-> 0,
     in_a_row |-> \A i \in DOMAIN calls : calls[i].pc = "done"]

\* start_lsp_server is invoked: lines 36-69 run without touching shared state
StartCall(language, path) ==
    /\ Len(calls) < MaxCalls
    /\ calls' = Append(calls, NewCall(language, path))
    /\ UNCHANGED <<active_servers, threads, analyzer_exists>>
    /\ UNCHANGED gateway_vars
    /\ UNCHANGED adapter_vars
    /\ UNCHANGED other_vars

\* lines 71-80: the registry is read under the read lock
is_running_never(servers, language) == FALSE

is_running(servers, language) == language \in DOMAIN servers

ReadActive(c) ==
    /\ calls[c].pc = "read"
    /\ LET running == is_running(active_servers, calls[c].normalized_language)
       IN  calls' = [calls EXCEPT ![c].is_server_running = running,
                                  ![c].pc = IF running THEN "done" ELSE "write",
                                  ![c].result = IF running
                                                THEN AlreadyRunning(calls[c].normalized_language)
                                                ELSE @]
    /\ UNCHANGED <<active_servers, threads, analyzer_exists>>
    /\ UNCHANGED gateway_vars
    /\ UNCHANGED adapter_vars
    /\ UNCHANGED other_vars

\* HashMap::insert / HashMap::remove
insert(servers, language) ==
    [l \in DOMAIN servers \cup {language} |-> TRUE]

remove_nothing(servers, language) == servers

remove(servers, language) ==
    [l \in DOMAIN servers \ {language} |-> servers[l]]

\* lines 82-86: the language is marked active under the write lock
WriteActive(c) ==
    /\ calls[c].pc = "write"
    /\ active_servers' = insert(active_servers, calls[c].normalized_language)
    /\ calls' = [calls EXCEPT ![c].inserted = TRUE, ![c].pc = "spawn"]
    /\ UNCHANGED <<threads, analyzer_exists>>
    /\ UNCHANGED gateway_vars
    /\ UNCHANGED adapter_vars
    /\ UNCHANGED other_vars

NewThread(c) ==
    [language |-> calls[c].normalized_language, pc |-> "spawned",
     is_initialized |-> FALSE, rust_analyzer_process |-> FALSE,
     init_result |-> None, inits |-> 0]

\* lines 88-110: the launch thread is spawned and the call returns
SpawnLaunch(c) ==
    /\ calls[c].pc = "spawn"
    /\ threads' = Append(threads, NewThread(c))
    /\ calls' = [calls EXCEPT ![c].pc = "done", ![c].thread = Len(threads) + 1,
                              ![c].result = Started(calls[c].normalized_language)]
    /\ UNCHANGED <<active_servers, analyzer_exists>>
    /\ UNCHANGED gateway_vars
    /\ UNCHANGED adapter_vars
    /\ UNCHANGED other_vars

\* start_language_server, lines 26-28: the factory creates the adapter or fails
CreateInstance(t) ==
    /\ threads[t].pc = "spawned"
    /\ \E created \in BOOLEAN :
          threads' = [threads EXCEPT ![t].pc = IF created THEN "serving" ELSE "failed"]
    /\ UNCHANGED <<active_servers, calls, analyzer_exists>>
    /\ UNCHANGED gateway_vars
    /\ UNCHANGED adapter_vars
    /\ UNCHANGED other_vars

\* lines 99-106: the launch failed, the language is removed under the write lock
RemoveOnFailure(t) ==
    /\ threads[t].pc = "failed"
    /\ active_servers' = remove(active_servers, threads[t].language)
    /\ threads' = [threads EXCEPT ![t].pc = "removed"]
    /\ UNCHANGED <<calls, analyzer_exists>>
    /\ UNCHANGED gateway_vars
    /\ UNCHANGED adapter_vars
    /\ UNCHANGED other_vars

\* start_language_server, lines 31-33: the serve loop ends and Ok(()) is returned
ServeReturns(t) ==
    /\ threads[t].pc = "serving"
    /\ threads' = [threads EXCEPT ![t].pc = "returned"]
    /\ UNCHANGED <<active_servers, calls, analyzer_exists>>
    /\ UNCHANGED gateway_vars
    /\ UNCHANGED adapter_vars
    /\ UNCHANGED other_vars

(***************************************************************************)
(* servers/rust.rs: the adapter's process lifecycle                        *)
(***************************************************************************)
\* BaseLanguageServer::initialize, lines 61-104, called by the front-end's
\* initialize request (lines 242-249) while the serve loop runs: the spawn
\* fails when the executable does not exist, and nothing is stored then
AdapterInitialize(t) ==
    /\ threads[t].pc = "serving"
    /\ ~threads[t].is_initialized
    /\ threads[t].inits < MaxInits
    /\ threads' = [threads EXCEPT
                     ![t].inits = @ + 1,
                     ![t].rust_analyzer_process = analyzer_exists,
                     ![t].is_initialized = analyzer_exists,
                     ![t].init_result = IF analyzer_exists THEN "Ok" ELSE "ProcessSpawnError"]
    /\ UNCHANGED <<active_servers, calls, analyzer_exists>>
    /\ UNCHANGED gateway_vars
    /\ UNCHANGED adapter_vars
    /\ UNCHANGED other_vars

\* environment: the executable is installed (a corrected executable path)
InstallAnalyzer ==
    /\ ~analyzer_exists
    /\ analyzer_exists' = TRUE
    /\ UNCHANGED <<active_servers, calls, threads>>
    /\ UNCHANGED gateway_vars
    /\ UNCHANGED adapter_vars
    /\ UNCHANGED other_vars

(***************************************************************************)
(* Specifications of the registry                                          *)
(***************************************************************************)
\* RustLanguageServer::new, servers/rust.rs lines 140-155: no child process,
\* no connection, no documents
InitAdapter ==
    /\ rust_analyzer_process = <<>>
    /\ is_initialized = FALSE
    /\ lsp_connection = <<>>
    /\ notification_tx = <<>>
    /\ processes = <<>>
    /\ child_inbox = <<>>
    /\ document_data = <<>>
    /\ document_states = <<>>
    /\ adapter_calls = <<>>
    /\ notification_tasks = 0
    /\ published = <<>>

\* no find_project_root invocation yet
InitRoot == root_calls = <<>>

\* a Process Connection as constructed: no request in flight, the reader running
InitConnection ==
    /\ next_id = 1
    /\ pending = <<>>
    /\ requests = <<>>
    /\ notification_queue = <<>>
    /\ received = <<>>
    /\ reader = "running"

InitOther == InitRoot /\ InitConnection

InitGateway ==
    /\ WS_SERVER_RUNNING = FALSE
    /\ WS_MANAGER = <<>>
    /\ ws_calls = <<>>
    /\ ws_threads = <<>>
    /\ bound_others = {}
    /\ listeners = <<>>

Init ==
    /\ active_servers = <<>>
    /\ calls = <<>>
    /\ threads = <<>>
    /\ analyzer_exists = TRUE
    /\ InitGateway
    /\ InitAdapter
    /\ InitOther

\* the executable may be missing when the launch claims begin
InitLaunch ==
    /\ active_servers = <<>>
    /\ calls = <<>>
    /\ threads = <<>>
    /\ analyzer_exists \in BOOLEAN
    /\ InitGateway
    /\ InitAdapter
    /\ InitOther

CallStep == \E c \in DOMAIN calls : ReadActive(c) \/ WriteActive(c) \/ SpawnLaunch(c)

LaunchStep == \E t \in DOMAIN threads : CreateInstance(t) \/ RemoveOnFailure(t)

ServeStep == \E t \in DOMAIN threads : AdapterInitialize(t) \/ ServeReturns(t)

AllReturned == \A c \in DOMAIN calls : calls[c].pc = "done"

\* every language argument and path, to settle the validation claims: the
\* calls are issued one after the other, the launch threads run beside them up
\* to the serve loop
Next ==
    \/ AllReturned /\ \E language \in Languages, path \in Paths : StartCall(language, path)
    \/ CallStep
    \/ LaunchStep

Spec == Init /\ [][Next]_vars

\* the calls that reach the registry, to settle the launch claims
NextLaunch ==
    \/ \E language \in LaunchLanguages, path \in LaunchPaths : StartCall(language, path)
    \/ CallStep
    \/ LaunchStep
    \/ ServeStep
    \/ InstallAnalyzer

SpecLaunch == InitLaunch /\ [][NextLaunch]_vars

\* The launch thread is an OS thread and a call is a task of the runtime:
\* each one is scheduled until it ends.
FairLaunch == InitLaunch /\ [][NextLaunch]_vars /\ WF_vars(LaunchStep) /\ WF_vars(CallStep)

(***************************************************************************)
(* websocket_manager.rs                                                    *)
(***************************************************************************)
\* the largest u16, the type of the port (line 9)
U16Max == 65535
\* max_attempts, line 44
MaxAttempts == 5

\* the port arguments of start: an ordinary one, and one whose fifth candidate
\* port does not fit a u16
StartPorts == {9000, 65532}

\* the candidate ports of a start at port p
Candidates(p) == { q \in p..(p + MaxAttempts - 1) : q <= U16Max }

\* environment: other processes hold a run of the candidate ports of one start
\* port, beginning at the start port itself or right after it
OtherBindings ==
    UNION { { { q \in Candidates(p) : lo <= q /\ q < p + k } : lo \in {p, p + 1} } :
              p \in StartPorts, k \in 0..MaxAttempts }

\* whether a bind of 127.0.0.1:port succeeds; port 0 asks the system for any free port
can_bind_always(port) == TRUE

can_bind(port) ==
    \/ port = 0
    \/ /\ port \notin bound_others
       /\ \A m \in DOMAIN listeners : listeners[m] # <<port>>

WsResult(ok, kind, port) == [ok |-> ok, kind |-> kind, port |-> port]

NewWsCall(op, port, pc, result) ==
    [op |-> op, port |-> port, pc |-> pc, result |-> result,
     saw_running |-> WS_SERVER_RUNNING, manager |-> <<>>, thread |-> 0]

\* the load of line 10
already_running_never(flag) == FALSE

already_running(flag) == flag

\* start_lsp_websocket_server, lines 9-12: the running flag is loaded
WsStart(port) ==
    /\ Len(ws_calls) < MaxWsCalls
    /\ ws_calls' = Append(ws_calls,
          IF already_running(WS_SERVER_RUNNING)
          THEN NewWsCall("start", port, "done", WsResult(TRUE, "AlreadyRunning", port))
          ELSE NewWsCall("start", port, "probe", WsResult(FALSE, None, port)))
    /\ UNCHANGED <<WS_SERVER_RUNNING, WS_MANAGER, ws_threads, bound_others, listeners>>
    /\ UNCHANGED registry_vars
    /\ UNCHANGED adapter_vars
    /\ UNCHANGED other_vars

\* lines 14-17: the probe binds the port and drops the listener at once
WsProbe(c) ==
    /\ ws_calls[c].pc = "probe"
    /\ ws_calls' = [ws_calls EXCEPT
                      ![c].pc = IF can_bind(ws_calls[c].port) THEN "create" ELSE "occupied"]
    /\ UNCHANGED <<WS_SERVER_RUNNING, WS_MANAGER, ws_threads, bound_others, listeners>>
    /\ UNCHANGED registry_vars
    /\ UNCHANGED adapter_vars
    /\ UNCHANGED other_vars

\* lines 19-25: the port is taken, the flag is set and success is returned
WsAssumeRunning(c) ==
    /\ ws_calls[c].pc = "occupied"
    /\ WS_SERVER_RUNNING' = TRUE
    /\ ws_calls' = [ws_calls EXCEPT
                      ![c].pc = "done",
                      ![c].result = WsResult(TRUE, "AlreadyRunningOnPort", ws_calls[c].port)]
    /\ UNCHANGED <<WS_MANAGER, ws_threads, bound_others, listeners>>
    /\ UNCHANGED registry_vars
    /\ UNCHANGED adapter_vars
    /\ UNCHANGED other_vars

NewWsThread(c, manager) ==
    [manager |-> manager, current_port |-> ws_calls[c].port,
     attempt |-> 0, pc |-> "store_running"]

\* lines 28-35 and 69: a manager is created, a clone of it is stored in
\* WS_MANAGER, the listener thread is spawned with the manager and "Starting"
\* is returned
WsSpawn(c) ==
    /\ ws_calls[c].pc = "create"
    /\ listeners' = Append(listeners, <<>>)
    /\ WS_MANAGER' = <<Len(listeners) + 1>>
    /\ ws_threads' = Append(ws_threads, NewWsThread(c, Len(listeners) + 1))
    /\ ws_calls' = [ws_calls EXCEPT
                      ![c].pc = "done", ![c].manager = <<Len(listeners) + 1>>,
                      ![c].thread = Len(ws_threads) + 1,
                      ![c].result = WsResult(TRUE, "Starting", ws_calls[c].port)]
    /\ UNCHANGED <<WS_SERVER_RUNNING, bound_others>>
    /\ UNCHANGED registry_vars
    /\ UNCHANGED adapter_vars
    /\ UNCHANGED other_vars

\* line 41: the listener thread sets the flag
WsThreadStoreRunning(t) ==
    /\ ws_threads[t].pc = "store_running"
    /\ WS_SERVER_RUNNING' = TRUE
    /\ ws_threads' = [ws_threads EXCEPT ![t].pc = "attempt"]
    /\ UNCHANGED <<WS_MANAGER, ws_calls, bound_others, listeners>>
    /\ UNCHANGED registry_vars
    /\ UNCHANGED adapter_vars
    /\ UNCHANGED other_vars

\* WebSocketManager::start_server: binds the port and serves, or fails
start_server_ok(port) == can_bind(port)

\* line 57, current_port += 1 on a u16: at the largest value the addition
\* panics where overflow is checked and wraps where it is not
NextPorts(current_port) ==
    IF current_port < U16Max
    THEN {[panic |-> FALSE, port |-> current_port + 1]}
    ELSE {[panic |-> TRUE, port |-> current_port], [panic |-> FALSE, port |-> 0]}

\* lines 46-65: one turn of the retry loop
WsAttempt(t) ==
    /\ ws_threads[t].pc = "attempt"
    /\ IF start_server_ok(ws_threads[t].current_port)
       THEN /\ listeners' = [listeners EXCEPT
                               ![ws_threads[t].manager] = <<ws_threads[t].current_port>>]
            /\ ws_threads' = [ws_threads EXCEPT ![t].pc = "serving"]
       ELSE /\ UNCHANGED listeners
            /\ IF ws_threads[t].attempt < MaxAttempts - 1
               THEN \E next \in NextPorts(ws_threads[t].current_port) :
                       ws_threads' = [ws_threads EXCEPT
                          ![t].pc = IF next.panic THEN "panicked" ELSE "attempt",
                          ![t].current_port = next.port,
                          ![t].attempt = IF next.panic THEN @ ELSE @ + 1]
               ELSE ws_threads' = [ws_threads EXCEPT ![t].pc = "exhausted"]
    /\ UNCHANGED <<WS_SERVER_RUNNING, WS_MANAGER, ws_calls, bound_others>>
    /\ UNCHANGED registry_vars
    /\ UNCHANGED adapter_vars
    /\ UNCHANGED other_vars

reset_running_skipped(flag) == flag

\* line 61: WS_SERVER_RUNNING.store(false) after the loop
reset_running(flag) == FALSE

\* lines 60-61: all attempts failed, the failure is logged and the flag reset
WsThreadReset(t) ==
    /\ ws_threads[t].pc = "exhausted"
    /\ WS_SERVER_RUNNING' = reset_running(WS_SERVER_RUNNING)
    /\ ws_threads' = [ws_threads EXCEPT ![t].pc = "done"]
    /\ UNCHANGED <<WS_MANAGER, ws_calls, bound_others, listeners>>
    /\ UNCHANGED registry_vars
    /\ UNCHANGED adapter_vars
    /\ UNCHANGED other_vars

\* is_lsp_websocket_running, lines 72-74
is_lsp_websocket_running == WS_SERVER_RUNNING

not_running_never(flag) == FALSE

\* line 77: !WS_SERVER_RUNNING.load()
not_running(flag) == ~flag

\* stop_lsp_websocket_server, lines 76-79: the running flag is loaded
WsStop ==
    /\ Len(ws_calls) < MaxWsCalls
    /\ ws_calls' = Append(ws_calls,
          IF not_running(WS_SERVER_RUNNING)
          THEN NewWsCall("stop", 0, "done", WsResult(TRUE, "NotRunning", 0))
          ELSE NewWsCall("stop", 0, "stop_server", WsResult(FALSE, None, 0)))
    /\ UNCHANGED <<WS_SERVER_RUNNING, WS_MANAGER, ws_threads, bound_others, listeners>>
    /\ UNCHANGED registry_vars
    /\ UNCHANGED adapter_vars
    /\ UNCHANGED other_vars

\* lines 81-91: the stored manager is read and its server stopped;
\* WebSocketManager::stop_server closes the listener, or fails
WsStopServer(c) ==
    /\ ws_calls[c].pc = "stop_server"
    /\ IF WS_MANAGER = <<>>
       THEN /\ ws_calls' = [ws_calls EXCEPT
                              ![c].pc = "done",
                              ![c].result = WsResult(FALSE, "ManagerNotInitialized", 0)]
            /\ UNCHANGED listeners
       ELSE \E stopped \in BOOLEAN :
              IF stopped
              THEN /\ listeners' = [listeners EXCEPT ![WS_MANAGER[1]] = <<>>]
                   /\ ws_calls' = [ws_calls EXCEPT ![c].pc = "store_stopped",
                                                   ![c].manager = WS_MANAGER]
              ELSE /\ UNCHANGED listeners
                   /\ ws_calls' = [ws_calls EXCEPT
                                     ![c].pc = "done", ![c].manager = WS_MANAGER,
                                     ![c].result = WsResult(FALSE, "StopFailed", 0)]
    /\ UNCHANGED <<WS_SERVER_RUNNING, WS_MANAGER, ws_threads, bound_others>>
    /\ UNCHANGED registry_vars
    /\ UNCHANGED adapter_vars
    /\ UNCHANGED other_vars

\* lines 93-95: the flag is cleared and success is returned
WsStopStore(c) ==
    /\ ws_calls[c].pc = "store_stopped"
    /\ WS_SERVER_RUNNING' = FALSE
    /\ ws_calls' = [ws_calls EXCEPT ![c].pc = "done",
                                    ![c].result = WsResult(TRUE, "Stopped", 0)]
    /\ UNCHANGED <<WS_MANAGER, ws_threads, bound_others, listeners>>
    /\ UNCHANGED registry_vars
    /\ UNCHANGED adapter_vars
    /\ UNCHANGED other_vars

\* cleanup_on_exit has been invoked: the host process is exiting
Exiting == \E c \in DOMAIN ws_calls : ws_calls[c].op = "cleanup"

\* cleanup_on_exit, lines 98-99: the running flag is loaded; when it is not
\* set the function returns at once
WsCleanup ==
    /\ Len(ws_calls) < MaxWsCalls
    /\ ~Exiting
    /\ ws_calls' = Append(ws_calls,
          IF WS_SERVER_RUNNING
          THEN NewWsCall("cleanup", 0, "cleanup_stop", WsResult(FALSE, None, 0))
          ELSE NewWsCall("cleanup", 0, "done", WsResult(TRUE, "NotRunning", 0)))
    /\ UNCHANGED <<WS_SERVER_RUNNING, WS_MANAGER, ws_threads, bound_others, listeners>>
    /\ UNCHANGED registry_vars
    /\ UNCHANGED adapter_vars
    /\ UNCHANGED other_vars

\* lines 100-122: a runtime is created (return when that fails), the stored
\* manager is read (return when there is none) and its server stopped; an
\* error of stop_server is only logged
WsCleanupStop(c) ==
    /\ ws_calls[c].pc = "cleanup_stop"
    /\ \E runtime_created \in BOOLEAN :
         IF ~runtime_created
         THEN /\ ws_calls' = [ws_calls EXCEPT
                                ![c].pc = "done",
                                ![c].result = WsResult(TRUE, "RuntimeFailed", 0)]
              /\ UNCHANGED listeners
         ELSE IF WS_MANAGER = <<>>
         THEN /\ ws_calls' = [ws_calls EXCEPT
                                ![c].pc = "done",
                                ![c].result = WsResult(TRUE, "ManagerNotInitialized", 0)]
              /\ UNCHANGED listeners
         ELSE /\ \E stopped \in BOOLEAN :
                   listeners' = IF stopped
                                THEN [listeners EXCEPT ![WS_MANAGER[1]] = <<>>]
                                ELSE listeners
              /\ ws_calls' = [ws_calls EXCEPT ![c].pc = "cleanup_store",
                                              ![c].manager = WS_MANAGER]
    /\ UNCHANGED <<WS_SERVER_RUNNING, WS_MANAGER, ws_threads, bound_others>>
    /\ UNCHANGED registry_vars
    /\ UNCHANGED adapter_vars
    /\ UNCHANGED other_vars

\* lines 124-126: the flag is cleared and the function returns
WsCleanupStore(c) ==
    /\ ws_calls[c].pc = "cleanup_store"
    /\ WS_SERVER_RUNNING' = FALSE
    /\ ws_calls' = [ws_calls EXCEPT ![c].pc = "done",
                                    ![c].result = WsResult(TRUE, "CleanedUp", 0)]
    /\ UNCHANGED <<WS_MANAGER, ws_threads, bound_others, listeners>>
    /\ UNCHANGED registry_vars
    /\ UNCHANGED adapter_vars
    /\ UNCHANGED other_vars

(***************************************************************************)
(* Specification of the gateway                                            *)
(***************************************************************************)
InitWs ==
    /\ active_servers = <<>>
    /\ calls = <<>>
    /\ threads = <<>>
    /\ analyzer_exists = TRUE
    /\ WS_SERVER_RUNNING = FALSE
    /\ WS_MANAGER = <<>>
    /\ ws_calls = <<>>
    /\ ws_threads = <<>>
    /\ bound_others \in OtherBindings
    /\ listeners = <<>>
    /\ InitAdapter
    /\ InitOther

WsCallStep ==
    \E c \in DOMAIN ws_calls :
        \/ WsProbe(c)
        \/ WsAssumeRunning(c)
        \/ WsSpawn(c)
        \/ WsStopServer(c)
        \/ WsStopStore(c)
        \/ WsCleanupStop(c)
        \/ WsCleanupStore(c)

WsThreadStep ==
    \E t \in DOMAIN ws_threads :
        WsThreadStoreRunning(t) \/ WsAttempt(t) \/ WsThreadReset(t)

\* the front end issues no further command once the host process is exiting
NextWs ==
    \/ ~Exiting /\ \E port \in StartPorts : WsStart(port)
    \/ ~Exiting /\ WsStop
    \/ WsCleanup
    \/ WsCallStep
    \/ WsThreadStep

SpecWs == InitWs /\ [][NextWs]_vars

\* every command issued so far has returned
AllWsReturned == \A c \in DOMAIN ws_calls : ws_calls[c].pc = "done"

\* the front end issues start and stop one after the other, each once the
\* previous command has returned, while the listener threads run on their own
NextStop ==
    \/ AllWsReturned /\ \E port \in StartPorts : WsStart(port)
    \/ AllWsReturned /\ WsStop
    \/ WsCallStep
    \/ WsThreadStep

SpecStop == InitWs /\ [][NextStop]_vars

\* the environments of the exhaustion case: other processes hold every
\* candidate port but the first
ExhaustingBindings == { Candidates(p) \ {p} : p \in StartPorts }

InitFairWs ==
    /\ active_servers = <<>>
    /\ calls = <<>>
    /\ threads = <<>>
    /\ analyzer_exists = TRUE
    /\ WS_SERVER_RUNNING = FALSE
    /\ WS_MANAGER = <<>>
    /\ ws_calls = <<>>
    /\ ws_threads = <<>>
    /\ bound_others \in ExhaustingBindings
    /\ listeners = <<>>
    /\ InitAdapter
    /\ InitOther

\* a runnable listener thread is eventually scheduled
FairWs == InitFairWs /\ [][NextWs]_vars /\ WF_vars(WsThreadStep)

(***************************************************************************)
(* servers/rust.rs: the adapter's per-document stores                      *)
(***************************************************************************)
Uris == {"file:///a.rs", "file:///b.rs"}
Texts == {"fn a() {}", "fn b() {}"}
\* params.content_changes: the texts of the change events, in order
ChangeLists == {<<>>, <<"fn a() {}", "fn b() {}">>, <<"fn b() {}", "fn a() {}">>}
\* params.diagnostics of a publishDiagnostics notification
DiagnosticLists == {<<"E0308">>, <<"E0425", "E0599">>}

\* String::new()
EmptyString == ""

DocumentData(content, diagnostics) == [content |-> content, diagnostics |-> diagnostics]

\* DashMap::insert / DashMap::remove / DashMap::contains_key
map_insert(map, key, value) ==
    [k \in DOMAIN map \cup {key} |-> IF k = key THEN value ELSE map[k]]

map_remove(map, key) == [k \in DOMAIN map \ {key} |-> map[k]]

contains_key(map, key) == key \in DOMAIN map

NoValue == [ok |-> TRUE, value |-> <<>>]

NewAdapterCall(op, uri, params, pc) ==
    [op |-> op, uri |-> uri, params |-> params, pc |-> pc, result |-> NoValue,
     saw_process |-> rust_analyzer_process, saw_connection |-> lsp_connection,
     sent |-> 0]

\* the front end issues its requests and notifications one after the other
AdapterIdle == \A c \in DOMAIN adapter_calls : adapter_calls[c].pc = "done"

\* send_notification, lines 229-237: without a connection the call fails and
\* the caller only logs that; LspProcessConnection::send_notification writes the message to
\* the child's stdin, which fails once the child has been killed
Notified(inbox, method) ==
    IF lsp_connection # <<>> /\ processes[lsp_connection[1]] = "running"
    THEN Append(inbox, [to |-> lsp_connection[1], method |-> method])
    ELSE inbox

\* the place of the message a handler has just written to the child, or 0
SentAt(inbox, written) == IF Len(written) > Len(inbox) THEN Len(written) ELSE 0

\* did_open, lines 349-358: the entry is replaced under the write lock
did_open(uri, text) ==
    /\ document_data' = map_insert(document_data, uri, DocumentData(text, <<>>))
    /\ adapter_calls' = Append(adapter_calls, NewAdapterCall("did_open", uri, <<text>>, "states"))
    /\ UNCHANGED <<process_vars, child_inbox, document_states, published>>
    /\ UNCHANGED <<registry_vars, gateway_vars, other_vars>>

DidOpen(uri, text) ==
    /\ Len(adapter_calls) < MaxDocCalls
    /\ AdapterIdle
    /\ did_open(uri, text)

track_when_connected(states, uri, text) ==
    IF lsp_connection # <<>> THEN map_insert(states, uri, text) ELSE states

\* line 360: self.document_states.insert(uri, text)
track(states, uri, text) == map_insert(states, uri, text)

\* did_open, lines 360-364: the text is tracked and the child is notified
DidOpenStates(c) ==
    /\ adapter_calls[c].op = "did_open"
    /\ adapter_calls[c].pc = "states"
    /\ document_states' = track(document_states, adapter_calls[c].uri,
                                adapter_calls[c].params[1])
    /\ child_inbox' = Notified(child_inbox, "textDocument/didOpen")
    /\ adapter_calls' = [adapter_calls EXCEPT
                            ![c].pc = "done", ![c].sent = SentAt(child_inbox, child_inbox')]
    /\ UNCHANGED <<process_vars, document_data, published>>
    /\ UNCHANGED <<registry_vars, gateway_vars, other_vars>>

last_change_first(content_changes) == content_changes[1]

\* lines 374-375: params.content_changes[params.content_changes.len() - 1]
last_change(content_changes) == content_changes[Len(content_changes)]

changed_entry_resets(data, new_content) == DocumentData(new_content, <<>>)

\* lines 386-387: data.content = new_content
changed_entry(data, new_content) == [data EXCEPT !.content = new_content]

\* did_change, lines 367-397: with a change, the content of the entry is
\* replaced, or an entry without diagnostics is created
did_change(uri, content_changes) ==
    /\ document_data' =
          IF content_changes = <<>> THEN document_data
          ELSE IF contains_key(document_data, uri)
          THEN [document_data EXCEPT
                  ![uri] = changed_entry(@, last_change(content_changes))]
          ELSE map_insert(document_data, uri,
                          DocumentData(last_change(content_changes), <<>>))
    /\ adapter_calls' = Append(adapter_calls,
                               NewAdapterCall("did_change", uri, content_changes, "states"))
    /\ UNCHANGED <<process_vars, child_inbox, document_states, published>>
    /\ UNCHANGED <<registry_vars, gateway_vars, other_vars>>

DidChange(uri, content_changes) ==
    /\ Len(adapter_calls) < MaxDocCalls
    /\ AdapterIdle
    /\ did_change(uri, content_changes)

\* did_change, lines 399-415: the tracked text is replaced or inserted, and
\* the child is notified, with or without a change
DidChangeStates(c) ==
    /\ adapter_calls[c].op = "did_change"
    /\ adapter_calls[c].pc = "states"
    /\ document_states' =
          IF adapter_calls[c].params = <<>> THEN document_states
          ELSE map_insert(document_states, adapter_calls[c].uri,
                          last_change(adapter_calls[c].params))
    /\ child_inbox' = Notified(child_inbox, "textDocument/didChange")
    /\ adapter_calls' = [adapter_calls EXCEPT
                            ![c].pc = "done", ![c].sent = SentAt(child_inbox, child_inbox')]
    /\ UNCHANGED <<process_vars, document_data, published>>
    /\ UNCHANGED <<registry_vars, gateway_vars, other_vars>>

close_keeps_entry(map, key) == map

\* line 429: document_data.remove(&uri)
close_entry(map, key) == map_remove(map, key)

\* did_close, lines 424-430: the entry is removed under the write lock
did_close(uri) ==
    /\ document_data' = close_entry(document_data, uri)
    /\ adapter_calls' = Append(adapter_calls, NewAdapterCall("did_close", uri, <<>>, "states"))
    /\ UNCHANGED <<process_vars, child_inbox, document_states, published>>
    /\ UNCHANGED <<registry_vars, gateway_vars, other_vars>>

DidClose(uri) ==
    /\ Len(adapter_calls) < MaxDocCalls
    /\ AdapterIdle
    /\ did_close(uri)

\* did_close, lines 432-436: the tracked text is removed, the child notified
DidCloseStates(c) ==
    /\ adapter_calls[c].op = "did_close"
    /\ adapter_calls[c].pc = "states"
    /\ document_states' = map_remove(document_states, adapter_calls[c].uri)
    /\ child_inbox' = Notified(child_inbox, "textDocument/didClose")
    /\ adapter_calls' = [adapter_calls EXCEPT
                            ![c].pc = "done", ![c].sent = SentAt(child_inbox, child_inbox')]
    /\ UNCHANGED <<process_vars, document_data, published>>
    /\ UNCHANGED <<registry_vars, gateway_vars, other_vars>>

\* did_save, line 418: the handler task is started
did_save(uri) ==
    /\ adapter_calls' = Append(adapter_calls, NewAdapterCall("did_save", uri, <<>>, "states"))
    /\ UNCHANGED <<process_vars, child_inbox, document_vars>>
    /\ UNCHANGED <<registry_vars, gateway_vars, other_vars>>

\* did_save, lines 419-421: the child is notified
DidSaveStates(c) ==
    /\ adapter_calls[c].op = "did_save"
    /\ adapter_calls[c].pc = "states"
    /\ child_inbox' = Notified(child_inbox, "textDocument/didSave")
    /\ adapter_calls' = [adapter_calls EXCEPT
                            ![c].pc = "done", ![c].sent = SentAt(child_inbox, child_inbox')]
    /\ UNCHANGED <<process_vars, document_vars>>
    /\ UNCHANGED <<registry_vars, gateway_vars, other_vars>>

replace_diagnostics_appends(old, new) == old \o new

\* line 200: data_ref.diagnostics = diagnostics.clone()
replace_diagnostics(old, new) == new

\* lines 193-202: an absent entry is created with empty content, a present
\* entry gets the notified diagnostics
with_diagnostics(map, uri, diagnostics) ==
    IF ~contains_key(map, uri)
    THEN map_insert(map, uri, DocumentData(EmptyString, diagnostics))
    ELSE [map EXCEPT ![uri].diagnostics = replace_diagnostics(@, diagnostics)]

\* process_notification and handle_diagnostics, lines 172-209, run by the
\* notification task while a sender of the channel exists: under the write
\* lock an absent entry is created with empty content, a present entry gets
\* the notified diagnostics (the forward to the front end's client leaves
\* the adapter's state alone); the client attached at
\* server_management.rs line 30 is then sent the diagnostics, lines 204-206
HandleDiagnostics(uri, diagnostics) ==
    /\ Len(adapter_calls) < MaxDocCalls
    /\ notification_tx # <<>>
    /\ document_data' = with_diagnostics(document_data, uri, diagnostics)
    /\ adapter_calls' = Append(adapter_calls,
                               NewAdapterCall("diagnostics", uri, diagnostics, "done"))
    /\ published' = Append(published, [uri |-> uri, diagnostics |-> diagnostics])
    /\ UNCHANGED <<process_vars, child_inbox, document_states>>
    /\ UNCHANGED <<registry_vars, gateway_vars, other_vars>>

\* BaseLanguageServer::initialize has succeeded, lines 85-99: the child runs,
\* the connection and the sender are stored
InitRunningAdapter ==
    /\ rust_analyzer_process = <<1>>
    /\ is_initialized = TRUE
    /\ lsp_connection = <<1>>
    /\ notification_tx = <<1>>
    /\ processes = <<"running">>
    /\ child_inbox = <<>>
    /\ document_data = <<>>
    /\ document_states = <<>>
    /\ adapter_calls = <<>>
    /\ notification_tasks = 1
    /\ published = <<>>

InitDocs ==
    /\ active_servers = <<>>
    /\ calls = <<>>
    /\ threads = <<>>
    /\ analyzer_exists = TRUE
    /\ InitGateway
    /\ (InitAdapter \/ InitRunningAdapter)
    /\ InitOther

DocStep ==
    \E c \in DOMAIN adapter_calls :
        DidOpenStates(c) \/ DidChangeStates(c) \/ DidCloseStates(c)

NextDocs ==
    \/ \E uri \in Uris, text \in Texts : DidOpen(uri, text)
    \/ \E uri \in Uris, content_changes \in ChangeLists : DidChange(uri, content_changes)
    \/ \E uri \in Uris : DidClose(uri)
    \/ \E uri \in Uris, diagnostics \in DiagnosticLists : HandleDiagnostics(uri, diagnostics)
    \/ DocStep

SpecDocs == InitDocs /\ [][NextDocs]_vars

\* the adapter holds a connection to a child that has exited: a write to the
\* child's stdin fails
InitExitedChild ==
    /\ rust_analyzer_process = <<1>>
    /\ is_initialized = TRUE
    /\ lsp_connection = <<1>>
    /\ notification_tx = <<1>>
    /\ processes = <<"exited">>
    /\ child_inbox = <<>>
    /\ document_data = <<>>
    /\ document_states = <<>>
    /\ adapter_calls = <<>>
    /\ notification_tasks = 1
    /\ published = <<>>

InitLocal ==
    /\ active_servers = <<>>
    /\ calls = <<>>
    /\ threads = <<>>
    /\ analyzer_exists = TRUE
    /\ InitGateway
    /\ (InitAdapter \/ InitRunningAdapter \/ InitExitedChild)
    /\ InitOther

\* the front end's document notifications with and without a child to
\* forward them to
NextLocal ==
    \/ \E uri \in Uris, text \in Texts : DidOpen(uri, text)
    \/ \E uri \in Uris, content_changes \in ChangeLists : DidChange(uri, content_changes)
    \/ \E uri \in Uris : DidClose(uri)
    \/ DocStep

SpecLocal == InitLocal /\ [][NextLocal]_vars

\* the handler tasks of the notifications received so far run concurrently:
\* a task is started for each notification in the order received, and the
\* tasks take their later steps in any order
ForwardStep ==
    \E c \in DOMAIN adapter_calls :
        DidOpenStates(c) \/ DidChangeStates(c) \/ DidCloseStates(c) \/ DidSaveStates(c)

NextForward ==
    \/ /\ Len(adapter_calls) < MaxTasks
       /\ \/ \E uri \in Uris, text \in Texts : did_open(uri, text)
          \/ \E uri \in Uris, content_changes \in ChangeLists : did_change(uri, content_changes)
          \/ \E uri \in Uris : did_close(uri)
          \/ \E uri \in Uris : did_save(uri)
    \/ ForwardStep

SpecForward == InitDocs /\ [][NextForward]_vars

(***************************************************************************)
(* servers/rust.rs: requests forwarded to the child                        *)
(***************************************************************************)
\* the JSON values a child may return as the result of a request
Json == {"null", "initialize_result", "hover", "locations", "empty_array", "string"}

\* what the child answers: the transport fails, or a response arrives that
\* carries an error, a result or neither
TransportError == [kind |-> "transport_error", error |-> <<>>, result |-> <<>>]

Response(error, result) == [kind |-> "response", error |-> error, result |-> result]

Responses ==
    {TransportError, Response(<<"-32603">>, <<>>), Response(<<>>, <<>>)}
        \cup { Response(<<>>, <<json>>) : json \in Json }

Err(message) == [ok |-> FALSE, value |-> <<message>>]

Ok(value) == [ok |-> TRUE, value |-> <<value>>]

\* send_request, lines 211-227
send_request(connection, response) ==
    IF connection = <<>> THEN Err("No connection to rust-analyzer")
    ELSE IF response.kind = "transport_error" THEN Err("transport")
    ELSE IF response.error # <<>> THEN Err("LSP error")
    ELSE IF response.result # <<>> THEN Ok(response.result[1])
    ELSE Err("Empty response from LSP server")

\* serde_json::from_value::<T>: whether the JSON value has the shape of T
\* (an empty array is a valid value of every list type and of the
\* list-or-object responses; null is a value of none of the types)
from_value(type, json) ==
    CASE type = "InitializeResult" -> json = "initialize_result"
      [] type = "Hover" -> json = "hover"
      [] type = "CompletionResponse" -> json = "empty_array"
      [] type = "GotoDefinitionResponse" -> json \in {"locations", "empty_array"}
      [] type = "Vec<Location>" -> json \in {"locations", "empty_array"}
      [] type = "Vec<TextEdit>" -> json = "empty_array"
      [] type = "PublishDiagnosticsParams" -> json = "publish_diagnostics_params"

Handlers == {"completion", "hover", "goto_definition", "references", "formatting"}

\* the type each handler translates the result to, lines 442, 464, 486, 508, 530
response_type(handler) ==
    CASE handler = "completion" -> "CompletionResponse"
      [] handler = "hover" -> "Hover"
      [] handler = "goto_definition" -> "GotoDefinitionResponse"
      [] handler = "references" -> "Vec<Location>"
      [] handler = "formatting" -> "Vec<TextEdit>"

\* result.is_null() is tested by every handler but completion
checks_null(handler) == handler # "completion"

parse_failed_propagates(handler) == Err("parse error")

\* lines 444-447, 466-469, 488-491, 510-513, 532-535: a result that does not
\* translate is logged and Ok(None) returned
parse_failed(handler) == NoValue

\* completion, hover, goto_definition, references, formatting, lines 439-543
handler_result(handler, sent) ==
    IF ~sent.ok THEN NoValue
    ELSE IF checks_null(handler) /\ sent.value[1] = "null" THEN NoValue
    ELSE IF from_value(response_type(handler), sent.value[1])
    THEN Ok([type |-> response_type(handler), json |-> sent.value[1]])
    ELSE parse_failed(handler)

\* LspProcessConnection::send_request writes the request to the child's stdin
Requested(inbox, response, method) ==
    IF lsp_connection # <<>> /\ response.kind = "response"
    THEN Append(inbox, [to |-> lsp_connection[1], method |-> method])
    ELSE inbox

Requests == { c \in DOMAIN adapter_calls : adapter_calls[c].op \in Handlers }

\* one request handler, from the call to its return
AdRequest(handler, response) ==
    /\ Cardinality(Requests) < MaxRequests
    /\ AdapterIdle
    /\ adapter_calls' = Append(adapter_calls,
          [NewAdapterCall(handler, "", response, "done") EXCEPT
              !.result = handler_result(handler, send_request(lsp_connection, response))])
    /\ child_inbox' = Requested(child_inbox, response, handler)
    /\ UNCHANGED <<process_vars, document_vars>>
    /\ UNCHANGED <<registry_vars, gateway_vars, other_vars>>

NextRequests ==
    \E handler \in Handlers, response \in Responses : AdRequest(handler, response)

\* requests reach an adapter as constructed or after a successful initialize
SpecRequests == InitDocs /\ [][NextRequests]_vars

(***************************************************************************)
(* servers/rust.rs: initialize and shutdown of one adapter                 *)
(***************************************************************************)
\* BaseLanguageServer::initialize, lines 79-85: the spawn fails, or the child
\* runs and the connection to its pipes fails, or both succeed
SpawnOutcomes == {"spawn_failed", "connection_failed", "started"}

ServerCalls ==
    { c \in DOMAIN adapter_calls : adapter_calls[c].op \in {"initialize", "shutdown"} }

\* lines 255-261: the capability set returned when the response does not parse
DefaultCapabilities == [type |-> "InitializeResult", json |-> "default"]

\* tower_lsp::jsonrpc::Error::internal_error()
InternalError == Err("internal_error")

initialized_after_always(outcome, flag) == TRUE

\* line 99, reached only when the spawn (line 83) and the connection (line 85)
\* succeeded: *self.is_initialized.lock().unwrap() = true
initialized_after(outcome, flag) == IF outcome = "started" THEN TRUE ELSE flag

\* LanguageServer::initialize, lines 242-249, with BaseLanguageServer::initialize,
\* lines 61-104: a failed start is reported as an internal error; a started
\* child, its connection and the notification sender are stored
AdInitialize(outcome) ==
    /\ Cardinality(ServerCalls) < MaxServerCalls
    /\ AdapterIdle
    /\ LET pid == Len(processes) + 1 IN
         /\ processes' = IF outcome = "spawn_failed" THEN processes
                          ELSE Append(processes, "running")
         /\ is_initialized' = initialized_after(outcome, is_initialized)
         /\ IF outcome = "started"
            THEN /\ rust_analyzer_process' = <<pid>>
                 /\ lsp_connection' = <<pid>>
                 /\ notification_tx' = <<pid>>
                 /\ notification_tasks' = notification_tasks + 1
                 /\ adapter_calls' = Append(adapter_calls,
                        NewAdapterCall("initialize", "", [spawn |-> outcome], "handshake"))
            ELSE /\ UNCHANGED <<rust_analyzer_process, lsp_connection, notification_tx,
                                notification_tasks>>
                 /\ adapter_calls' = Append(adapter_calls,
                        [NewAdapterCall("initialize", "", [spawn |-> outcome], "done")
                            EXCEPT !.result = InternalError])
    /\ UNCHANGED <<child_inbox, document_vars>>
    /\ UNCHANGED <<registry_vars, gateway_vars, other_vars>>

\* lines 323-326: a failed send_request is logged and an internal error returned
forward_failed(sent) == InternalError

\* lines 251-327: the handshake is forwarded; a result that parses is
\* returned, one that does not parse is replaced by the default capabilities
initialize_result(sent) ==
    IF ~sent.ok THEN forward_failed(sent)
    ELSE IF from_value("InitializeResult", sent.value[1])
    THEN Ok([type |-> "InitializeResult", json |-> sent.value[1]])
    ELSE Ok(DefaultCapabilities)

AdHandshake(c, response) ==
    /\ adapter_calls[c].op = "initialize"
    /\ adapter_calls[c].pc = "handshake"
    /\ adapter_calls' = [adapter_calls EXCEPT
          ![c].pc = "done",
          ![c].params = [spawn |-> "started", response |-> response],
          ![c].result = initialize_result(send_request(lsp_connection, response))]
    /\ child_inbox' = Requested(child_inbox, response, "initialize")
    /\ UNCHANGED <<process_vars, document_vars>>
    /\ UNCHANGED <<registry_vars, gateway_vars, other_vars>>

take_is_some_always(process) == TRUE

\* line 107: if let Some(mut process) = self.rust_analyzer_process.lock().unwrap().take()
take_is_some(process) == process # <<>>

\* Child::kill
kill(procs, process) ==
    [p \in DOMAIN procs |-> IF <<p>> = process THEN "killed" ELSE procs[p]]

shutdown_result_propagates(base_ok) == IF base_ok THEN NoValue ELSE InternalError

\* lines 337-345: an error of the base shutdown is logged and Ok(()) returned
shutdown_result(base_ok) == NoValue

\* LanguageServer::shutdown, lines 336-346, with BaseLanguageServer::shutdown,
\* lines 106-132: the process is taken; "shutdown" and "exit" are sent when a
\* connection exists; a failed kill returns early with the flag, the
\* connection and the sender left as they are; the caller only logs an error
AdShutdown(kill_ok) ==
    /\ Cardinality(ServerCalls) < MaxServerCalls
    /\ AdapterIdle
    /\ rust_analyzer_process = <<>> => kill_ok
    /\ LET process == rust_analyzer_process IN
         IF take_is_some(process)
         THEN /\ rust_analyzer_process' = <<>>
              /\ child_inbox' = Notified(Notified(child_inbox, "shutdown"), "exit")
              /\ IF kill_ok
                 THEN /\ processes' = kill(processes, process)
                      /\ is_initialized' = FALSE
                      /\ lsp_connection' = <<>>
                      /\ notification_tx' = <<>>
                 ELSE UNCHANGED <<processes, is_initialized, lsp_connection, notification_tx>>
              /\ UNCHANGED notification_tasks
              /\ adapter_calls' = Append(adapter_calls,
                     [NewAdapterCall("shutdown", "", [base_ok |-> kill_ok], "done")
                         EXCEPT !.result = shutdown_result(kill_ok)])
         ELSE /\ UNCHANGED <<process_vars, child_inbox>>
              /\ adapter_calls' = Append(adapter_calls,
                     NewAdapterCall("shutdown", "", [base_ok |-> TRUE], "done"))
    /\ UNCHANGED document_vars
    /\ UNCHANGED <<registry_vars, gateway_vars, other_vars>>

\* is_running, lines 134-136
adapter_is_running == is_initialized

InitServer ==
    /\ active_servers = <<>>
    /\ calls = <<>>
    /\ threads = <<>>
    /\ analyzer_exists = TRUE
    /\ InitGateway
    /\ InitAdapter
    /\ InitOther

NextServer ==
    \/ \E outcome \in SpawnOutcomes : AdInitialize(outcome)
    \/ \E c \in DOMAIN adapter_calls, response \in Responses : AdHandshake(c, response)
    \/ \E kill_ok \in BOOLEAN : AdShutdown(kill_ok)

SpecServer == InitServer /\ [][NextServer]_vars

(***************************************************************************)
(* servers/rust.rs: the notification task, lines 162-209, next to the      *)
(* document handlers                                                       *)
(***************************************************************************)
PublishDiagnosticsParams(uri, diagnostics) ==
    [json |-> "publish_diagnostics_params", uri |-> uri, diagnostics |-> diagnostics]

\* params that are not a PublishDiagnosticsParams: the diagnostics are no list
MalformedParams ==
    [json |-> "string", uri |-> "file:///a.rs", diagnostics |-> <<"not a list">>]

\* JsonRpcNotification: a method and optional params
Notifications ==
    { [method |-> "textDocument/publishDiagnostics", params |-> p] :
        p \in { <<>>, <<MalformedParams>> } \cup
              { <<PublishDiagnosticsParams(uri, diagnostics)>> :
                  uri \in Uris, diagnostics \in DiagnosticLists } }
      \cup { [method |-> "window/logMessage", params |-> p] :
               p \in { <<>>, <<PublishDiagnosticsParams("file:///a.rs", <<"log">>)>> } }

handled_unparsed(notification) ==
    /\ notification.method = "textDocument/publishDiagnostics"
    /\ notification.params # <<>>

\* process_notification, lines 173-176: the method is publishDiagnostics, the
\* params are present and they parse
handled(notification) ==
    /\ notification.method = "textDocument/publishDiagnostics"
    /\ notification.params # <<>>
    /\ from_value("PublishDiagnosticsParams", notification.params[1].json)

\* line 191 to the end of handle_diagnostics: the write guard of document_data
\* is held by the notification task until the function returns
WriteLockFree == \A c \in DOMAIN adapter_calls : adapter_calls[c].pc # "relay"

\* the front end's document handlers have returned
HandlersIdle == \A c \in DOMAIN adapter_calls : adapter_calls[c].pc # "states"

\* process_notification, lines 172-185, with handle_diagnostics, lines
\* 187-202: the task takes the next notification when it is not inside
\* handle_diagnostics; a notification that is not handled is dropped (an
\* unrecognized method is logged); a handled one updates the entry under the
\* write lock and goes on to the relay
ProcessNotification(notification) ==
    /\ Len(adapter_calls) < MaxDrainCalls
    /\ notification_tx # <<>>
    /\ WriteLockFree
    /\ IF handled(notification)
       THEN /\ document_data' = with_diagnostics(document_data,
                                    notification.params[1].uri,
                                    notification.params[1].diagnostics)
            /\ adapter_calls' = Append(adapter_calls,
                  NewAdapterCall("diagnostics", notification.params[1].uri,
                                 notification.params[1].diagnostics, "relay"))
       ELSE /\ UNCHANGED document_data
            /\ adapter_calls' = Append(adapter_calls,
                  NewAdapterCall("dropped", "", <<notification>>, "done"))
    /\ UNCHANGED <<process_vars, child_inbox, document_states, published>>
    /\ UNCHANGED <<registry_vars, gateway_vars, other_vars>>

\* handle_diagnostics, lines 204-209: the client is sent the diagnostics and
\* the function returns, which drops the write guard
RelayDiagnostics(c) ==
    /\ adapter_calls[c].op = "diagnostics"
    /\ adapter_calls[c].pc = "relay"
    /\ published' = Append(published, [uri |-> adapter_calls[c].uri,
                                       diagnostics |-> adapter_calls[c].params])
    /\ adapter_calls' = [adapter_calls EXCEPT ![c].pc = "done"]
    /\ UNCHANGED <<process_vars, child_inbox, document_data, document_states>>
    /\ UNCHANGED <<registry_vars, gateway_vars, other_vars>>

\* the front end's document notifications, one after the other: did_open,
\* did_close and a did_change with changes begin by awaiting the write lock
\* (lines 353, 381, 428); did_save and a did_change without changes do not
DrainDocument ==
    /\ Len(adapter_calls) < MaxDrainCalls
    /\ HandlersIdle
    /\ \/ WriteLockFree /\ \E uri \in Uris, text \in Texts : did_open(uri, text)
       \/ \E uri \in Uris, content_changes \in ChangeLists :
             /\ content_changes # <<>> => WriteLockFree
             /\ did_change(uri, content_changes)
       \/ WriteLockFree /\ \E uri \in Uris : did_close(uri)
       \/ \E uri \in Uris : did_save(uri)

InitDrain == InitDocs /\ notification_tx # <<>>

NextDrain ==
    \/ \E notification \in Notifications : ProcessNotification(notification)
    \/ \E c \in DOMAIN adapter_calls : RelayDiagnostics(c)
    \/ DrainDocument
    \/ ForwardStep

SpecDrain == InitDrain /\ [][NextDrain]_vars

(***************************************************************************)
(* find_project_root, server_management.rs lines 113-141                   *)
(***************************************************************************)
s_generic == <<"g", "e", "n", "e", "r", "i", "c">>

\* the language argument, an Option<String>
LanguageArguments ==
    { <<>> } \cup
    { <<l>> : l \in { s_generic, <<"G", "E", "N", "E", "R", "I", "C">>, s_rust,
                      <<"R", "U", "S", "T">>, s_python, s_unknown, s_empty } }

FilePaths == { "/x/src/y.rs", "/x/y.py" }

\* what ServerFactory::find_project_root answers: no root, or the root it found
Detections == { <<>>, <<"/x">> }

\* language.unwrap_or_else(|| "generic".to_string()), line 115
unwrap_or_generic(language) == IF language = <<>> THEN s_generic ELSE language[1]

is_generic_never(lang) == FALSE

\* lang != "generic", line 117, negated
is_generic(lang) == lang = s_generic

\* lines 117-127: the language is refused before the factory is asked
unrecognized(lang) ==
    /\ ~is_generic(lang)
    /\ ~contains(get_recognized_languages, to_lowercase(lang))

UnrecognizedLanguage(lang) == Err(<<"Can't recognize Language", lang>>)

RootNotFound == Err("Failed to find project root")

\* lines 113-141: one invocation, with what the factory was asked (if it was)
FindProjectRoot(file_path, language, detection) ==
    LET lang == unwrap_or_generic(language)
    IN  /\ Len(root_calls) < MaxRootCalls
        /\ root_calls' = Append(root_calls,
              IF unrecognized(lang)
              THEN [file_path |-> file_path, language |-> language, detected |-> <<>>,
                    result |-> UnrecognizedLanguage(lang)]
              ELSE [file_path |-> file_path, language |-> language,
                    detected |-> <<[language |-> lang, file_path |-> file_path]>>,
                    result |-> IF detection = <<>> THEN RootNotFound
                               ELSE Ok(detection[1])])
        /\ UNCHANGED <<registry_vars, gateway_vars, adapter_vars, connection_vars>>

NextRoot ==
    \E file_path \in FilePaths, language \in LanguageArguments, detection \in Detections :
        FindProjectRoot(file_path, language, detection)

SpecRoot == Init /\ [][NextRoot]_vars

(***************************************************************************)
(* The Process Connection (lsp/protocol.rs, LspProcessConnection), created *)
(* at servers/rust.rs lines 61-104 and used by send_request, lines 211-227 *)
(***************************************************************************)
RequestMethods == { "textDocument/hover" }

\* the ids a decoded value may carry: those the connection can assign, and one more
MessageIds == 1..(MaxConnRequests + 1)

\* the decoded JSON values: success responses, a remote-error response, a
\* notification, a value with neither an id nor a method, and a value with both
Messages ==
    { [id |-> <<n>>, method |-> <<>>, body |-> "result"] : n \in MessageIds }
        \cup { [id |-> <<1>>, method |-> <<>>, body |-> "error"],
               [id |-> <<>>, method |-> <<"textDocument/publishDiagnostics">>, body |-> "params"],
               [id |-> <<>>, method |-> <<>>, body |-> "params"],
               [id |-> <<1>>, method |-> <<"workspace/configuration">>, body |-> "params"] }

next_after_same(id) == id

\* ids are monotonically assigned
next_after(id) == id + 1

\* a caller takes the next correlation id
SendRequestAssign(method) ==
    /\ Len(requests) < MaxConnRequests
    /\ requests' = Append(requests,
          [id |-> next_id, method |-> method, pc |-> "assigned", slot |-> <<>>])
    /\ next_id' = next_after(next_id)
    /\ UNCHANGED <<pending, notification_queue, received, reader>>
    /\ UNCHANGED <<registry_vars, gateway_vars, adapter_vars, root_vars>>

\* the caller registers its pending slot under its id, writes the request and
\* suspends on the slot
SendRequestRegister(r) ==
    /\ requests[r].pc = "assigned"
    /\ pending' = map_insert(pending, requests[r].id, r)
    /\ requests' = [requests EXCEPT ![r].pc = "in_flight"]
    /\ UNCHANGED <<next_id, notification_queue, received, reader>>
    /\ UNCHANGED <<registry_vars, gateway_vars, adapter_vars, root_vars>>

\* the value carries an id matching a pending request
matches_pending(message, table) ==
    message.id # <<>> /\ contains_key(table, message.id[1])

\* the value carries a method and no id
is_notification(message) == message.method # <<>> /\ message.id = <<>>

reader_after_discard_crashes == "crashed"

\* a value matching neither case is logged and discarded
reader_after_discard == "running"

\* the reader task classifies one decoded value
ReaderReceive(message) ==
    LET k == Len(received) + 1
        disposition == IF matches_pending(message, pending) THEN "completed"
                       ELSE IF is_notification(message) THEN "enqueued"
                       ELSE "discarded"
    IN  /\ reader = "running"
        /\ Len(received) < MaxMessages
        /\ received' = Append(received,
              [message |-> message, pending_then |-> DOMAIN pending,
               disposition |-> disposition])
        /\ IF disposition = "completed"
           THEN /\ requests' = [requests EXCEPT
                      ![pending[message.id[1]]].slot = <<[by |-> k, body |-> message.body]>>,
                      ![pending[message.id[1]]].pc = "completed"]
                /\ pending' = map_remove(pending, message.id[1])
                /\ UNCHANGED <<notification_queue, reader>>
           ELSE IF disposition = "enqueued"
           THEN /\ notification_queue' =
                      Append(notification_queue, [from |-> k, method |-> message.method[1]])
                /\ UNCHANGED <<requests, pending, reader>>
           ELSE /\ reader' = reader_after_discard
                /\ UNCHANGED <<requests, pending, notification_queue>>
        /\ UNCHANGED next_id
        /\ UNCHANGED <<registry_vars, gateway_vars, adapter_vars, root_vars>>

NextConnection ==
    \/ \E method \in RequestMethods : SendRequestAssign(method)
    \/ \E r \in DOMAIN requests : SendRequestRegister(r)
    \/ \E message \in Messages : ReaderReceive(message)

SpecConnection == Init /\ [][NextConnection]_vars

(***************************************************************************)
(* Claims about the registry                                               *)
(***************************************************************************)
LiveThreads(language) ==
    { t \in DOMAIN threads :
        threads[t].language = language /\ threads[t].pc \in {"spawned", "serving"} }

\* C1: under every interleaving of concurrent start_lsp_server calls for one
\* language, at most one launch thread is alive (spawned and not ended) for
\* that language.
C1_SingletonPerLanguage ==
    \A c \in DOMAIN calls :
        Cardinality(LiveThreads(calls[c].normalized_language)) <= 1

TwiceInARow ==
    /\ Len(calls) = 2
    /\ \A c \in DOMAIN calls : calls[c].language = s_rust /\ calls[c].path.exists
    /\ calls[2].in_a_row
    /\ calls[2].pc = "done"

ExactlyOneEntry ==
    /\ DOMAIN active_servers = {s_rust}
    /\ active_servers[s_rust] = TRUE

SecondCallReused ==
    /\ ExactlyOneEntry
    /\ calls[2].result = AlreadyRunning(s_rust)
    /\ calls[2].thread = 0
    /\ Len(threads) = 1

FirstLaunchNotFailed ==
    /\ calls[1].thread \in DOMAIN threads
    /\ threads[calls[1].thread].pc \notin {"failed", "removed"}

\* C2 as stated: start_lsp_server("rust", path) twice in a row leaves exactly
\* one active entry for "rust", and the second call returns success without
\* starting a second adapter.
C2_TwiceOneEntry == TwiceInARow => SecondCallReused

\* C2 as amended: the same, as long as the launch started by the first call has
\* not failed.
C2_TwiceOneEntryUnlessFailed ==
    (TwiceInARow /\ FirstLaunchNotFailed) => SecondCallReused

C2_Witness == TwiceInARow /\ FirstLaunchNotFailed /\ SecondCallReused

\* C3: a language is in the registry if and only if an adapter for it has
\* completed startup (its serve loop runs) and has not failed or been torn
\* down (its serve loop has not returned).
C3_PresentIffServing ==
    (s_rust \in DOMAIN active_servers)
        <=> (\E t \in DOMAIN threads :
                threads[t].language = s_rust /\ threads[t].pc = "serving")

\* C4: a call with an existing path whose language, after lower-casing and
\* extension inference, is not supported fails with UnsupportedLanguage listing
\* the supported languages, spawns no launch thread and does not write the
\* registry.
C4_UnsupportedRejected ==
    \A c \in DOMAIN calls :
        (calls[c].path.exists /\ calls[c].normalized_language # s_rust)
            => /\ calls[c].pc = "done"
               /\ ~calls[c].result.ok
               /\ calls[c].result.kind = "UnsupportedLanguage"
               /\ calls[c].result.supported = <<s_rust>>
               /\ ~calls[c].inserted
               /\ calls[c].thread = 0
               /\ Len(threads) <= Len(calls) - 1

C4_Witness ==
    \E c \in DOMAIN calls :
        /\ calls[c].path.exists
        /\ calls[c].normalized_language = s_python
        /\ calls[c].result.kind = "UnsupportedLanguage"
        /\ s_rust \in DOMAIN active_servers

C6_SpawnErrorClearsRegistry ==
    \A t \in DOMAIN threads :
        (threads[t].init_result = "ProcessSpawnError" /\ threads[t].pc = "returned")
            => threads[t].language \notin DOMAIN active_servers

\* the language arguments that stand for "not given", in any letter case
UnknownArguments == { s_unknown, <<"U", "n", "K", "n", "o", "w", "n">>, s_empty }

InferredLanguage(path) ==
    CASE path.extension = <<"rs">> -> s_rust
      [] path.extension = <<"py">> -> s_python
      [] path.extension = <<"js">> -> s_javascript
      [] path.extension = <<"ts">> -> s_typescript

HasMappedExtension(path) ==
    path.exists /\ path.extension \in {<<"rs">>, <<"py">>, <<"js">>, <<"ts">>}

SameOutcome(c, d) ==
    /\ calls[c].normalized_language = calls[d].normalized_language
    /\ calls[c].pc = "done" /\ calls[d].pc = "done"
         /\ calls[c].is_server_running = calls[d].is_server_running
       => /\ calls[c].result = calls[d].result
          /\ calls[c].inserted = calls[d].inserted
          /\ (calls[c].thread = 0) = (calls[d].thread = 0)

\* C7: with an existing path of extension rs, py, js or ts, a call whose
\* language is empty or "unknown" (any letter case) has the outcome of the call
\* with the language the extension maps to; a given language is not overridden.
C7_ExtensionInference ==
    \A c \in DOMAIN calls :
        HasMappedExtension(calls[c].path) =>
            /\ calls[c].language \in UnknownArguments
                 => /\ calls[c].normalized_language = InferredLanguage(calls[c].path)
                    /\ \A d \in DOMAIN calls :
                          (calls[d].path = calls[c].path
                             /\ calls[d].language = InferredLanguage(calls[c].path))
                          => SameOutcome(c, d)
            /\ calls[c].language \in {s_rust, <<"R", "U", "S", "T">>}
                 => calls[c].normalized_language = s_rust
            /\ calls[c].language = s_python
                 => calls[c].normalized_language = s_python

C7_Witness ==
    \E c, d \in DOMAIN calls :
        /\ calls[c].language = <<"U", "n", "K", "n", "o", "w", "n">>
        /\ calls[d].language = s_rust
        /\ calls[c].path = calls[d].path
        /\ calls[c].path.extension = <<"rs">>
        /\ calls[c].result = Started(s_rust)
        /\ calls[d].result = Started(s_rust)
        /\ calls[c].in_a_row

\* C8: a call with a path that does not exist fails with PathNotFound whatever
\* the language argument is, spawns no launch thread and does not write the
\* registry.
C8_MissingPathRejected ==
    \A c \in DOMAIN calls :
        ~calls[c].path.exists
            => /\ calls[c].pc = "done"
               /\ calls[c].result = PathNotFound(calls[c].path)
               /\ ~calls[c].inserted
               /\ calls[c].thread = 0
               /\ Len(threads) <= Len(calls) - 1

C8_Witness ==
    \E c \in DOMAIN calls :
        /\ ~calls[c].path.exists
        /\ calls[c].language = s_python
        /\ calls[c].result.kind = "PathNotFound"
        /\ s_rust \in DOMAIN active_servers

(***************************************************************************)
(* Claims about the gateway                                                *)
(***************************************************************************)
LastWsCall == ws_calls[Len(ws_calls)]

\* C9: a start issued while the running flag is set returns success at once,
\* for every port, and changes nothing: the flag, the stored manager, the
\* listeners and the listener threads stay as they are, and the call neither
\* probes the port nor goes on to create a manager or a thread.
C9_StartIdempotent ==
    /\ [][(WS_SERVER_RUNNING /\ Len(ws_calls') = Len(ws_calls) + 1
              /\ LastWsCall'.op = "start")
            => /\ LastWsCall'.pc = "done"
               /\ LastWsCall'.result = WsResult(TRUE, "AlreadyRunning", LastWsCall'.port)
               /\ SubSeq(ws_calls', 1, Len(ws_calls)) = ws_calls
               /\ UNCHANGED <<WS_SERVER_RUNNING, WS_MANAGER, ws_threads, listeners,
                              bound_others>>]_vars
    /\ [](\A c \in DOMAIN ws_calls :
            (ws_calls[c].op = "start" /\ ws_calls[c].saw_running)
                => /\ ws_calls[c].pc = "done"
                   /\ ws_calls[c].result.kind = "AlreadyRunning"
                   /\ ws_calls[c].manager = <<>>
                   /\ ws_calls[c].thread = 0)

C9_Witness ==
    \E c, d \in DOMAIN ws_calls :
        /\ ws_calls[c].op = "start" /\ ws_calls[c].saw_running
        /\ ws_calls[d].op = "start" /\ ws_calls[d].saw_running
        /\ ws_calls[c].port # ws_calls[d].port
        /\ WS_SERVER_RUNNING

\* a start that found the gateway stopped and whose port another process holds
OnOccupiedPort(c) ==
    /\ ws_calls[c].op = "start"
    /\ ~ws_calls[c].saw_running
    /\ ws_calls[c].port \in bound_others

\* C10: a start on a stopped gateway whose port is bound by another process
\* returns success, creates no manager and no listener thread of its own, and
\* the running flag is set when it returns.
C10_OccupiedPortAssumedRunning ==
    /\ [](\A c \in DOMAIN ws_calls :
            (OnOccupiedPort(c) /\ ws_calls[c].pc = "done")
                => /\ ws_calls[c].result
                        = WsResult(TRUE, "AlreadyRunningOnPort", ws_calls[c].port)
                   /\ ws_calls[c].manager = <<>>
                   /\ ws_calls[c].thread = 0)
    /\ [][\A c \in DOMAIN ws_calls :
            (OnOccupiedPort(c) /\ ws_calls[c].pc # "done" /\ ws_calls'[c].pc = "done")
                => /\ is_lsp_websocket_running'
                   /\ UNCHANGED <<WS_MANAGER, ws_threads, listeners>>]_vars

C10_Witness ==
    \E c \in DOMAIN ws_calls :
        /\ OnOccupiedPort(c)
        /\ ws_calls[c].pc = "done"
        /\ ws_calls[c].result.ok
        /\ ws_threads = <<>>
        /\ is_lsp_websocket_running

SpawnerOf(t) == { c \in DOMAIN ws_calls : ws_calls[c].thread = t }

AcknowledgedStart(t) ==
    /\ SpawnerOf(t) # {}
    /\ \A c \in SpawnerOf(t) :
          /\ ws_calls[c].op = "start"
          /\ ws_calls[c].pc = "done"
          /\ ws_calls[c].result = WsResult(TRUE, "Starting", ws_calls[c].port)

AllAttemptsFailed ==
    \E t \in DOMAIN ws_threads : ws_threads[t].pc = "exhausted"

\* C11: when all 5 attempts of a listener thread have failed, the running
\* flag is eventually false, and the start call that spawned the thread has
\* returned the success acknowledgment "Starting", which the failure never
\* replaces.
C11_ExhaustedEndsStopped ==
    /\ AllAttemptsFailed ~> ~is_lsp_websocket_running
    /\ [](\A t \in DOMAIN ws_threads :
            ws_threads[t].pc \in {"exhausted", "done"} =>
                /\ ws_threads[t].attempt = MaxAttempts - 1
                /\ AcknowledgedStart(t))

C11_Witness ==
    \E t \in DOMAIN ws_threads :
        /\ ws_threads[t].pc = "done"
        /\ ws_threads[t].attempt = MaxAttempts - 1
        /\ AcknowledgedStart(t)
        /\ ~is_lsp_websocket_running

StopReturns(c) ==
    /\ ws_calls[c].op = "stop"
    /\ ws_calls[c].pc # "done"
    /\ ws_calls'[c].pc = "done"

AllListenersClosed == \A m \in DOMAIN listeners : listeners[m] = <<>>

\* C12: when a stop that found the running flag set returns, the running
\* flag is false and no listener of the gateway is open.
C12_StopClearsRunning ==
    [][\A c \in DOMAIN ws_calls :
          (StopReturns(c) /\ ws_calls[c].saw_running)
              => (~is_lsp_websocket_running' /\ AllListenersClosed')]_vars

\* C13: every stop that has returned has returned a success status.
C13_StopNeverFails ==
    \A c \in DOMAIN ws_calls :
        (ws_calls[c].op = "stop" /\ ws_calls[c].pc = "done") => ws_calls[c].result.ok

\* C14: a stop issued while the running flag is not set returns success at
\* once and changes nothing: the flag stays false, the stored manager, the
\* listeners and the listener threads stay as they are, and the call never
\* reads the manager or stops a server.
C14_StopWhenNotRunning ==
    /\ [][(~WS_SERVER_RUNNING /\ Len(ws_calls') = Len(ws_calls) + 1
              /\ LastWsCall'.op = "stop")
            => /\ LastWsCall'.pc = "done"
               /\ LastWsCall'.result = WsResult(TRUE, "NotRunning", 0)
               /\ SubSeq(ws_calls', 1, Len(ws_calls)) = ws_calls
               /\ ~WS_SERVER_RUNNING'
               /\ UNCHANGED <<WS_MANAGER, ws_threads, listeners, bound_others>>]_vars
    /\ [](\A c \in DOMAIN ws_calls :
            (ws_calls[c].op = "stop" /\ ~ws_calls[c].saw_running)
                => /\ ws_calls[c].pc = "done"
                   /\ ws_calls[c].result = WsResult(TRUE, "NotRunning", 0)
                   /\ ws_calls[c].manager = <<>>)

C14_Witness ==
    \E c, d \in DOMAIN ws_calls :
        /\ ws_calls[c].op = "stop" /\ ~ws_calls[c].saw_running
        /\ ws_calls[c].pc = "done" /\ ws_calls[c].result.ok
        /\ d < c /\ ws_calls[d].op = "start" /\ ws_calls[d].thread # 0
        /\ WS_MANAGER # <<>>
        /\ ~is_lsp_websocket_running

CleanupReturns(c) ==
    /\ ws_calls[c].op = "cleanup"
    /\ ws_calls[c].pc # "done"
    /\ ws_calls'[c].pc = "done"

\* C15: cleanup_on_exit always returns normally; when it found the running
\* flag set, the flag is false when it returns; when it found the flag not
\* set, it changes nothing.
C15_CleanupBestEffort ==
    /\ [](\A c \in DOMAIN ws_calls :
            (ws_calls[c].op = "cleanup" /\ ws_calls[c].pc = "done")
                => ws_calls[c].result.ok)
    /\ [][\A c \in DOMAIN ws_calls :
            (CleanupReturns(c) /\ ws_calls[c].saw_running)
                => ~is_lsp_websocket_running']_vars
    /\ [][(~WS_SERVER_RUNNING /\ Len(ws_calls') = Len(ws_calls) + 1
              /\ LastWsCall'.op = "cleanup")
            => /\ LastWsCall'.pc = "done"
               /\ UNCHANGED <<WS_SERVER_RUNNING, WS_MANAGER, ws_threads, listeners,
                              bound_others>>]_vars

(***************************************************************************)
(* Claims about the adapter's documents                                    *)
(***************************************************************************)
IsDiagnostics(c) == adapter_calls[c].op = "diagnostics"

\* call i is a didOpen and call j a didChange with a change for the same uri,
\* both have returned, and the front end has called nothing between them or
\* after them (diagnostics notifications may have arrived)
OpenThenChange(i, j) ==
    /\ i < j
    /\ adapter_calls[i].op = "did_open" /\ adapter_calls[i].pc = "done"
    /\ adapter_calls[j].op = "did_change" /\ adapter_calls[j].pc = "done"
    /\ adapter_calls[j].uri = adapter_calls[i].uri
    /\ adapter_calls[j].params # <<>>
    /\ \A k \in DOMAIN adapter_calls : (i < k /\ k # j) => IsDiagnostics(k)

\* C16: after didOpen(uri, t1) followed by didChange(uri, t2), both
\* per-document stores hold t2, the text of the last change, for the uri.
C16_OpenChangeRoundTrip ==
    \A i, j \in DOMAIN adapter_calls :
        OpenThenChange(i, j)
            => LET uri == adapter_calls[j].uri
                   t2 == adapter_calls[j].params[Len(adapter_calls[j].params)]
               IN /\ contains_key(document_data, uri)
                  /\ document_data[uri].content = t2
                  /\ contains_key(document_states, uri)
                  /\ document_states[uri] = t2

C16_Witness ==
    \E i, j \in DOMAIN adapter_calls :
        /\ OpenThenChange(i, j)
        /\ adapter_calls[i].params[1] # adapter_calls[j].params[Len(adapter_calls[j].params)]
        /\ adapter_calls[j].params[1] # adapter_calls[j].params[Len(adapter_calls[j].params)]
        /\ document_states[adapter_calls[j].uri] # adapter_calls[i].params[1]
        /\ \E k \in DOMAIN adapter_calls : IsDiagnostics(k) /\ i < k

\* the front end's calls for the uri, and the last of them
FrontCalls(uri) ==
    { c \in DOMAIN adapter_calls : adapter_calls[c].uri = uri /\ ~IsDiagnostics(c) }

LastFrontCall(uri) == CHOOSE c \in FrontCalls(uri) : \A d \in FrontCalls(uri) : d <= c

Closed(uri) ==
    /\ FrontCalls(uri) # {}
    /\ adapter_calls[LastFrontCall(uri)].op = "did_close"

\* the diagnostics notifications for the uri that arrived after its close
DiagnosticsSinceClose(uri) ==
    { c \in DOMAIN adapter_calls :
        IsDiagnostics(c) /\ adapter_calls[c].uri = uri /\ c > LastFrontCall(uri) }

LastDiagnosticsSinceClose(uri) ==
    CHOOSE c \in DiagnosticsSinceClose(uri) : \A d \in DiagnosticsSinceClose(uri) : d <= c

\* C17: once didClose(uri) has removed the entry, the uri has no entry until
\* a diagnostics notification arrives for it, and then its entry has empty
\* content and exactly the diagnostics last notified, nothing from before
\* the close; the tracked text is gone when didClose has returned.
C17_CloseThenFreshEntry ==
    \A uri \in Uris :
        Closed(uri)
            => /\ DiagnosticsSinceClose(uri) = {} => ~contains_key(document_data, uri)
               /\ DiagnosticsSinceClose(uri) # {} =>
                     /\ contains_key(document_data, uri)
                     /\ document_data[uri]
                          = DocumentData(EmptyString,
                                adapter_calls[LastDiagnosticsSinceClose(uri)].params)
               /\ adapter_calls[LastFrontCall(uri)].pc = "done"
                     => ~contains_key(document_states, uri)

C17_Witness ==
    \E uri \in Uris :
        \E o, d, c, e \in DOMAIN adapter_calls :
            /\ o < d /\ d < c /\ c < e
            /\ adapter_calls[o].op = "did_open" /\ adapter_calls[o].uri = uri
            /\ IsDiagnostics(d) /\ adapter_calls[d].uri = uri
            /\ adapter_calls[c].op = "did_close" /\ adapter_calls[c].uri = uri
            /\ adapter_calls[c].pc = "done"
            /\ IsDiagnostics(e) /\ adapter_calls[e].uri = uri
            /\ adapter_calls[e].params # adapter_calls[d].params
            /\ document_data[uri] = DocumentData(EmptyString, adapter_calls[e].params)

(***************************************************************************)
(* Claims about the adapter's requests                                     *)
(***************************************************************************)
\* the child's result arrived and has the shape of the handler's response
Translates(c) ==
    /\ adapter_calls[c].saw_connection # <<>>
    /\ adapter_calls[c].params.kind = "response"
    /\ adapter_calls[c].params.error = <<>>
    /\ adapter_calls[c].params.result # <<>>
    /\ adapter_calls[c].params.result[1] # "null"
    /\ from_value(response_type(adapter_calls[c].op), adapter_calls[c].params.result[1])

\* C20: every completion, hover, goto_definition, references and formatting
\* call returns success, whatever the child did; it returns the translated
\* value when the child's result translates, and "no result" otherwise.
C20_RequestsNeverFail ==
    \A c \in Requests :
        /\ adapter_calls[c].pc = "done"
        /\ adapter_calls[c].result.ok
        /\ Translates(c) <=> adapter_calls[c].result.value # <<>>
        /\ Translates(c) =>
              adapter_calls[c].result.value[1].json = adapter_calls[c].params.result[1]

C20_Witness ==
    \E c, d \in Requests :
        /\ adapter_calls[c].op = "completion"
        /\ adapter_calls[c].saw_connection # <<>>
        /\ adapter_calls[c].params = Response(<<>>, <<"null">>)
        /\ adapter_calls[c].result = NoValue
        /\ adapter_calls[d].op = "references"
        /\ adapter_calls[d].params = Response(<<>>, <<"locations">>)
        /\ adapter_calls[d].result.value # <<>>

LastAdapterCall == adapter_calls[Len(adapter_calls)]

\* C18: a shutdown of an adapter that holds no child process (never
\* initialized, or already shut down) succeeds and is a no-op: nothing is
\* sent to a child, nothing is killed and no field of the adapter changes.
C18_ShutdownIdempotent ==
    /\ [][(rust_analyzer_process = <<>> /\ Len(adapter_calls') = Len(adapter_calls) + 1
              /\ LastAdapterCall'.op = "shutdown")
            => /\ LastAdapterCall'.pc = "done"
               /\ LastAdapterCall'.result.ok
               /\ LastAdapterCall'.params.base_ok
               /\ SubSeq(adapter_calls', 1, Len(adapter_calls)) = adapter_calls
               /\ UNCHANGED <<process_vars, child_inbox, document_vars>>]_vars
    /\ [](~adapter_is_running /\ AdapterIdle => rust_analyzer_process = <<>>)

C18_Witness ==
    \E i, j, k \in DOMAIN adapter_calls :
        /\ i < j /\ j < k
        /\ adapter_calls[i].op = "initialize" /\ adapter_calls[i].result.ok
        /\ adapter_calls[j].op = "shutdown" /\ adapter_calls[j].saw_process # <<>>
        /\ adapter_calls[j].params.base_ok
        /\ adapter_calls[k].op = "shutdown" /\ adapter_calls[k].saw_process = <<>>
        /\ adapter_calls[k].result.ok
        /\ ~adapter_is_running
        /\ Len(child_inbox) = 3

ChildRunning(c) ==
    /\ adapter_calls[c].op = "initialize"
    /\ adapter_calls[c].pc = "done"
    /\ adapter_calls[c].params.spawn = "started"

\* C19: an initialize whose child process was started returns success: the
\* child's capabilities when its response parses, and the default
\* capability set when forwarding the handshake failed or the response was
\* malformed.
C19_InitializeDegrades ==
    \A c \in DOMAIN adapter_calls :
        ChildRunning(c)
            => /\ adapter_calls[c].result.ok
               /\ adapter_calls[c].params.response # Response(<<>>, <<"initialize_result">>)
                     => adapter_calls[c].result = Ok(DefaultCapabilities)

(***************************************************************************)
(* Claims about the listener launch                                        *)
(***************************************************************************)
\* C26: a listener thread launched by start(p) is at its k-th attempt on port
\* p + k, for k below 5, and a thread has left the loop to reset the running
\* flag only after its 5th attempt failed.
C26_ConsecutivePorts ==
    \A t \in DOMAIN ws_threads : \A c \in SpawnerOf(t) :
        /\ ws_threads[t].attempt \in 0..(MaxAttempts - 1)
        /\ ws_threads[t].current_port = ws_calls[c].port + ws_threads[t].attempt
        /\ ws_threads[t].pc \in {"exhausted", "done"}
              => ws_threads[t].attempt = MaxAttempts - 1

(***************************************************************************)
(* Claims about the adapter's lifecycle                                    *)
(***************************************************************************)
Orphans ==
    { p \in DOMAIN processes : processes[p] = "running" /\ rust_analyzer_process # <<p>> }

\* C22: between operations, a running adapter holds one connection and the
\* handle of the child that connection talks to, and no child process runs
\* that the adapter does not own.
C22_OneConnectionWhileRunning ==
    AdapterIdle
        => /\ adapter_is_running
                 => /\ lsp_connection # <<>>
                    /\ rust_analyzer_process = lsp_connection
           /\ Orphans = {}

IssuedNow(op) ==
    /\ Len(adapter_calls') = Len(adapter_calls) + 1
    /\ LastAdapterCall'.op = op

\* C27: a shutdown of a running adapter writes "shutdown" and then "exit" to
\* the child, kills the process, releases the connection and the
\* notification sender, marks the adapter not running and returns without
\* waiting for the child.
C27_ShutdownSequence ==
    [][(IssuedNow("shutdown") /\ adapter_is_running /\ rust_analyzer_process # <<>>)
         => /\ child_inbox' = Notified(Notified(child_inbox, "shutdown"), "exit")
            /\ processes'[rust_analyzer_process[1]] = "killed"
            /\ rust_analyzer_process' = <<>>
            /\ lsp_connection' = <<>>
            /\ notification_tx' = <<>>
            /\ ~adapter_is_running'
            /\ LastAdapterCall'.pc = "done"]_vars

FailedStart(c) ==
    /\ adapter_calls[c].op = "initialize"
    /\ adapter_calls[c].params.spawn # "started"

\* C28: an initialize whose child cannot be spawned, or whose connection
\* cannot be opened, returns an error and stores nothing: the running flag,
\* the connection, the child handle and the notification sender stay as they
\* were and no notification task is started, so an adapter that was not
\* running is not running afterwards.
C28_FailedInitializeStoresNothing ==
    /\ [][(IssuedNow("initialize") /\ LastAdapterCall'.params.spawn # "started")
            => /\ LastAdapterCall'.pc = "done"
               /\ ~LastAdapterCall'.result.ok
               /\ UNCHANGED <<is_initialized, lsp_connection, rust_analyzer_process,
                              notification_tx, notification_tasks, child_inbox>>
               /\ ~adapter_is_running => ~adapter_is_running']_vars
    /\ [](\A c \in DOMAIN adapter_calls :
            FailedStart(c) => adapter_calls[c].result = InternalError)

C28_Witness ==
    \E c, d \in DOMAIN adapter_calls :
        /\ FailedStart(c) /\ adapter_calls[c].params.spawn = "spawn_failed"
        /\ FailedStart(d) /\ adapter_calls[d].params.spawn = "connection_failed"
        /\ ~adapter_calls[c].result.ok /\ ~adapter_calls[d].result.ok
        /\ ~adapter_is_running
        /\ lsp_connection = <<>> /\ rust_analyzer_process = <<>>
        /\ notification_tx = <<>> /\ notification_tasks = 0

\* C29: every shutdown request of the front end returns success, also when
\* the kill of the child process failed.
C29_ShutdownAlwaysOk ==
    \A c \in DOMAIN adapter_calls :
        adapter_calls[c].op = "shutdown"
            => /\ adapter_calls[c].pc = "done"
               /\ adapter_calls[c].result = NoValue

C29_Witness ==
    \E c \in DOMAIN adapter_calls :
        /\ adapter_calls[c].op = "shutdown"
        /\ adapter_calls[c].saw_process # <<>>
        /\ ~adapter_calls[c].params.base_ok
        /\ adapter_calls[c].result.ok
        /\ adapter_is_running

(***************************************************************************)
(* Claims about diagnostics                                                *)
(***************************************************************************)
DiagnosticsFor(uri) ==
    { c \in DOMAIN adapter_calls : IsDiagnostics(c) /\ adapter_calls[c].uri = uri }

LastDiagnostics(uri) ==
    CHOOSE c \in DiagnosticsFor(uri) : \A d \in DiagnosticsFor(uri) : d <= c

\* the front end has not opened or closed the uri since its last diagnostics
OnlyNotifiedSince(uri) ==
    \A c \in FrontCalls(uri) :
        adapter_calls[c].op \in {"did_open", "did_close"} => c < LastDiagnostics(uri)

IsDiagnosticsRecord(r) == r.op = "diagnostics"

DiagnosticsLog == SelectSeq(adapter_calls, IsDiagnosticsRecord)

\* C30: the diagnostics stored for a uri are the list of the most recent
\* publishDiagnostics notification for that uri, whatever was notified
\* before or for other uris, and the front end's client has been sent every
\* notification, in the order received.
C30_LatestDiagnostics ==
    /\ \A uri \in Uris :
          (DiagnosticsFor(uri) # {} /\ OnlyNotifiedSince(uri))
              => /\ contains_key(document_data, uri)
                 /\ document_data[uri].diagnostics
                      = adapter_calls[LastDiagnostics(uri)].params
    /\ published = [i \in DOMAIN DiagnosticsLog |->
                      [uri |-> DiagnosticsLog[i].uri,
                       diagnostics |-> DiagnosticsLog[i].params]]

C30_Witness ==
    \E uri, other \in Uris :
        \E c, d, e \in DOMAIN adapter_calls :
            /\ uri # other /\ c < d /\ d < e
            /\ DiagnosticsFor(uri) = {c, d}
            /\ adapter_calls[c].params # adapter_calls[d].params
            /\ IsDiagnostics(e) /\ adapter_calls[e].uri = other
            /\ adapter_calls[e].params # adapter_calls[d].params
            /\ document_data[uri].diagnostics = adapter_calls[d].params
            /\ Len(published) = 3

(***************************************************************************)
(* Claims about the forwarding of document notifications                   *)
(***************************************************************************)
DocumentOps == {"did_open", "did_change", "did_save", "did_close"}

\* C21: of two document notifications for one uri, the one received later is
\* written to the child after the one received earlier.
C21_ForwardedInOrder ==
    \A i, j \in DOMAIN adapter_calls :
        ( /\ i < j
          /\ adapter_calls[i].op \in DocumentOps /\ adapter_calls[j].op \in DocumentOps
          /\ adapter_calls[i].uri = adapter_calls[j].uri
          /\ adapter_calls[i].saw_connection # <<>>
          /\ adapter_calls[j].sent # 0 )
            => /\ adapter_calls[i].sent # 0
               /\ adapter_calls[i].sent < adapter_calls[j].sent

(***************************************************************************)
(* Claims about find_project_root                                          *)
(***************************************************************************)
Refused(c) ==
    /\ root_calls[c].language # <<>>
    /\ root_calls[c].language[1] # s_generic
    /\ ~contains(get_recognized_languages, to_lowercase(root_calls[c].language[1]))

Unchecked(c) == root_calls[c].language = <<>> \/ root_calls[c].language[1] = s_generic

\* C23: find_project_root with a language that is not "generic" and is not,
\* case-insensitively, a recognized one fails with the unrecognized-language
\* error and never asks for root detection; with the language absent or
\* "generic" the language is not refused and root detection is asked.
C23_UnrecognizedBeforeDetection ==
    \A c \in DOMAIN root_calls :
        /\ Refused(c) =>
              /\ root_calls[c].result = UnrecognizedLanguage(root_calls[c].language[1])
              /\ root_calls[c].detected = <<>>
        /\ Unchecked(c) =>
              /\ root_calls[c].detected =
                    <<[language |-> s_generic, file_path |-> root_calls[c].file_path]>>
              /\ root_calls[c].result \in { RootNotFound } \cup { Ok("/x") }

C23_Witness ==
    /\ \E c \in DOMAIN root_calls :
          Refused(c) /\ root_calls[c].language[1] = <<"G", "E", "N", "E", "R", "I", "C">>
    /\ \E c \in DOMAIN root_calls : root_calls[c].language = <<>> /\ root_calls[c].result.ok

(***************************************************************************)
(* Claims about the Process Connection                                     *)
(***************************************************************************)
\* the k-th decoded value carried an id that no pending request had
UnmatchedResponse(k) ==
    /\ received[k].message.id # <<>>
    /\ received[k].message.id[1] \notin received[k].pending_then

\* the k-th decoded value carried the id of a request pending at that moment
MatchedResponse(k) ==
    /\ received[k].message.id # <<>>
    /\ received[k].message.id[1] \in received[k].pending_then

CompletedBy(k) ==
    { r \in DOMAIN requests : requests[r].slot # <<>> /\ requests[r].slot[1].by = k }

EnqueuedFrom(k) == { n \in DOMAIN notification_queue : notification_queue[n].from = k }

\* C24: a response whose id matches no pending request is dropped: it
\* completes no pending request, no notification is enqueued for it, the
\* reader task keeps running, and the responses and notifications decoded
\* after it are still delivered.
C24_UnmatchedResponseDropped ==
    \A k \in DOMAIN received :
        UnmatchedResponse(k) =>
            /\ CompletedBy(k) = {}
            /\ EnqueuedFrom(k) = {}
            /\ reader = "running"
            /\ \A l \in DOMAIN received :
                  l > k =>
                      /\ MatchedResponse(l) => CompletedBy(l) # {}
                      /\ is_notification(received[l].message) => EnqueuedFrom(l) # {}

C24_Witness ==
    \E k, l, m \in DOMAIN received :
        /\ k < l /\ k < m
        /\ UnmatchedResponse(k) /\ received[k].message.method = <<>>
        /\ MatchedResponse(l) /\ CompletedBy(l) # {}
        /\ is_notification(received[m].message) /\ EnqueuedFrom(m) # {}

InFlight(r) == requests[r].pc = "in_flight"

\* C25: correlation ids are assigned in increasing order, no two requests in
\* flight share an id, each in-flight request keeps its own pending slot, and
\* a response completes exactly the one pending request that carried its id.
C25_CorrelationIds ==
    /\ \A i, j \in DOMAIN requests : i < j => requests[i].id < requests[j].id
    /\ \A i, j \in DOMAIN requests :
          (i # j /\ InFlight(i) /\ InFlight(j)) => requests[i].id # requests[j].id
    /\ \A r \in DOMAIN requests :
          InFlight(r) =>
              /\ requests[r].slot = <<>>
              /\ contains_key(pending, requests[r].id)
              /\ pending[requests[r].id] = r
    /\ \A k \in DOMAIN received :
          MatchedResponse(k) =>
              /\ Cardinality(CompletedBy(k)) = 1
              /\ \A r \in CompletedBy(k) :
                    /\ requests[r].id = received[k].message.id[1]
                    /\ requests[r].slot[1].body = received[k].message.body

C25_Witness ==
    /\ Len(requests) >= 2
    /\ requests[1].slot # <<>> /\ requests[2].slot # <<>>
    /\ requests[2].slot[1].by < requests[1].slot[1].by
    /\ received[requests[2].slot[1].by].pending_then = { requests[1].id, requests[2].id }

(***************************************************************************)
(* Claims about the notification task and the document handlers            *)
(***************************************************************************)
\* a handler or a notification has begun in this step
Begun == Len(adapter_calls') = Len(adapter_calls) + 1

BegunCall == adapter_calls'[Len(adapter_calls')]

SameEntry(uri) ==
    /\ contains_key(document_data', uri) = contains_key(document_data, uri)
    /\ contains_key(document_data, uri) => document_data'[uri] = document_data[uri]

EmptyChangeForwarded ==
    \A c \in DOMAIN adapter_calls :
        ( /\ adapter_calls[c].op = "did_change"
          /\ adapter_calls[c].params = <<>>
          /\ adapter_calls[c].pc = "done"
          /\ adapter_calls[c].saw_connection # <<>> )
            => /\ adapter_calls[c].sent # 0
               /\ child_inbox[adapter_calls[c].sent].method = "textDocument/didChange"

\* C31: a didChange with changes replaces only the content of its uri's
\* entry, by the text of the last change, and keeps the diagnostics; a
\* diagnostics notification replaces only the diagnostics and keeps the
\* content; didSave and a didChange without changes leave document_data as it
\* is, and the latter is still written to the child; no step changes the
\* entry of another uri.
C31_OwnFieldOnly ==
    /\ []EmptyChangeForwarded
    /\ [][ /\ ~Begun => document_data' = document_data
           /\ Begun =>
                /\ \A other \in Uris \ {BegunCall.uri} : SameEntry(other)
                /\ ( /\ BegunCall.op = "did_change"
                     /\ BegunCall.params # <<>>
                     /\ contains_key(document_data, BegunCall.uri) )
                      => document_data'[BegunCall.uri] =
                            DocumentData(BegunCall.params[Len(BegunCall.params)],
                                         document_data[BegunCall.uri].diagnostics)
                /\ (BegunCall.op = "did_change" /\ BegunCall.params = <<>>)
                      => document_data' = document_data
                /\ (BegunCall.op = "diagnostics"
                      /\ contains_key(document_data, BegunCall.uri))
                      => document_data'[BegunCall.uri] =
                            DocumentData(document_data[BegunCall.uri].content,
                                         BegunCall.params)
                /\ BegunCall.op = "did_save" => document_data' = document_data
         ]_vars

C31_Witness ==
    \E c, d \in DOMAIN adapter_calls :
        /\ c < d /\ d = Len(adapter_calls)
        /\ adapter_calls[c].op = "diagnostics"
        /\ adapter_calls[d].op = "did_change"
        /\ adapter_calls[d].params # <<>>
        /\ adapter_calls[d].uri = adapter_calls[c].uri
        /\ contains_key(document_data, adapter_calls[d].uri)
        /\ document_data[adapter_calls[d].uri] =
              DocumentData(adapter_calls[d].params[Len(adapter_calls[d].params)],
                           adapter_calls[c].params)
        /\ \E e \in DOMAIN adapter_calls :
              /\ adapter_calls[e].uri # adapter_calls[d].uri
              /\ adapter_calls[e].op = "did_open"

\* the notifications of the history that were not handled
Dropped == { c \in DOMAIN adapter_calls : adapter_calls[c].op = "dropped" }

\* what was handled came from a publishDiagnostics notification whose params parse
OnlyParsedHandled ==
    /\ \A c \in DOMAIN adapter_calls :
          adapter_calls[c].op = "diagnostics" => adapter_calls[c].params \in DiagnosticLists
    /\ \A uri \in DOMAIN document_data :
          document_data[uri].diagnostics \in DiagnosticLists \cup {<<>>}
    /\ \A i \in DOMAIN published : published[i].diagnostics \in DiagnosticLists

\* C32: a notification with an unrecognized method, or a publishDiagnostics
\* notification without params or with params that do not parse, is dropped:
\* document_data is unchanged, nothing is relayed to the front end, and the
\* notification task is ready for the next notification.
C32_DroppedNotifications ==
    /\ []OnlyParsedHandled
    /\ [][(Begun /\ BegunCall.op = "dropped")
            => /\ document_data' = document_data
               /\ published' = published
               /\ WriteLockFree'
               /\ notification_tx' = notification_tx]_vars

C32_Witness ==
    \E c, d, e \in DOMAIN adapter_calls :
        /\ c < e /\ d < e
        /\ c \in Dropped /\ d \in Dropped
        /\ adapter_calls[c].params[1].method = "window/logMessage"
        /\ adapter_calls[d].params[1].params = <<MalformedParams>>
        /\ adapter_calls[e].op = "diagnostics"
        /\ adapter_calls[e].pc = "done"
        /\ published # <<>>

RelayInProgress ==
    { c \in DOMAIN adapter_calls :
        adapter_calls[c].op = "diagnostics" /\ adapter_calls[c].pc = "relay" }

\* C39: no task of the adapter waits for the child or for the front end's
\* client while it holds the write lock of document_data, so that a
\* did_open, did_change or did_close never waits for a relay of diagnostics
\* that is still in progress.
C39_NoWriteLockAcrossRelay == RelayInProgress = {}

(***************************************************************************)
(* Claims about the notification task's end                                *)
(***************************************************************************)
\* the shutdowns of an adapter that held a child, which have returned
ReturnedShutdowns ==
    { c \in DOMAIN adapter_calls :
        /\ adapter_calls[c].op = "shutdown"
        /\ adapter_calls[c].pc = "done"
        /\ adapter_calls[c].saw_process # <<>> }

\* the notification task started for child p ends once its channel has no
\* sender (rx.recv() yields None, line 166); the only sender is the one
\* stored in notification_tx
SenderAlive(p) == notification_tx = <<p>>

\* C33: once a shutdown of a running adapter has returned, the sender of the
\* channel of that adapter's notification task has been dropped, so that the
\* task ends; a sender is alive only for the child the adapter holds.
C33_ShutdownDropsSender ==
    /\ \A c \in ReturnedShutdowns : ~SenderAlive(adapter_calls[c].saw_process[1])
    /\ AdapterIdle =>
          \A p \in DOMAIN processes : SenderAlive(p) => rust_analyzer_process = <<p>>

(***************************************************************************)
(* Claims about stop and the listener launch                               *)
(***************************************************************************)
\* no listener thread has a step left
ThreadsSettled ==
    \A t \in DOMAIN ws_threads : ws_threads[t].pc \in {"serving", "done", "panicked"}

\* stop j was invoked after start i had returned "Starting", stop j returned
\* success, and no start was invoked after it
StoppedAfterStart(i, j) ==
    /\ i < j
    /\ ws_calls[i].op = "start"
    /\ ws_calls[i].result = WsResult(TRUE, "Starting", ws_calls[i].port)
    /\ ws_calls[j].op = "stop"
    /\ ws_calls[j].pc = "done"
    /\ ws_calls[j].result.ok
    /\ \A k \in DOMAIN ws_calls : k > j => ws_calls[k].op # "start"

\* C34: when a stop was invoked after a start had returned "Starting" and no
\* start followed, then once the commands have returned and the listener
\* threads have no step left, the gateway is not running and no listener is
\* open.
C34_StopNotLost ==
    \A i, j \in DOMAIN ws_calls :
        (StoppedAfterStart(i, j) /\ AllWsReturned /\ ThreadsSettled)
            => (~is_lsp_websocket_running /\ AllListenersClosed)

\* only starts have been issued, each while the running flag was not set
OnlyStartsWhileStopped ==
    \A c \in DOMAIN ws_calls : ws_calls[c].op = "start" /\ ~ws_calls[c].saw_running

ServingManagers == { m \in DOMAIN listeners : listeners[m] # <<>> }

\* C35: starts issued while the gateway is stopped spawn at most one
\* listener thread between them, and the manager stored in WS_MANAGER is the
\* one whose listener is serving.
C35_OneLaunchThread ==
    OnlyStartsWhileStopped
        => /\ Len(ws_threads) <= 1
           /\ \A m \in ServingManagers : WS_MANAGER = <<m>>

\* C36: whatever the start port, the retry loop of a listener thread does not
\* panic, and its port is the start port plus the number of retries made, a
\* value that fits the 16 bits of a port.
C36_NoPortOverflow ==
    \A t \in DOMAIN ws_threads :
        /\ ws_threads[t].pc # "panicked"
        /\ \A c \in SpawnerOf(t) :
              /\ ws_calls[c].port + ws_threads[t].attempt <= U16Max
              /\ ws_threads[t].current_port = ws_calls[c].port + ws_threads[t].attempt

(***************************************************************************)
(* Claims about the two document stores                                    *)
(***************************************************************************)
\* the notifications received for the uri that write to the stores
StoreCalls(uri) ==
    { c \in DOMAIN adapter_calls :
        /\ adapter_calls[c].uri = uri
        /\ \/ adapter_calls[c].op \in {"did_open", "did_close"}
           \/ adapter_calls[c].op = "did_change" /\ adapter_calls[c].params # <<>> }

\* the last such notification received for the uri is a didClose
ClosedLast(uri) ==
    /\ StoreCalls(uri) # {}
    /\ \A c \in StoreCalls(uri) :
          (\A d \in StoreCalls(uri) : d <= c) => adapter_calls[c].op = "did_close"

\* C37: once the handlers of the notifications received have completed,
\* every uri of document_states has an entry in document_data with the same
\* content, and a uri whose last notification was a didClose is in neither
\* store.
C37_StoresAgree ==
    AdapterIdle =>
        \A uri \in Uris :
            /\ contains_key(document_states, uri)
                  => /\ contains_key(document_data, uri)
                     /\ document_data[uri].content = document_states[uri]
            /\ ClosedLast(uri)
                  => /\ ~contains_key(document_states, uri)
                     /\ ~contains_key(document_data, uri)

(***************************************************************************)
(* Claims about the local update when forwarding fails                     *)
(***************************************************************************)
\* the handler of call c has returned and nothing was written to the child
Unforwarded(c) ==
    /\ adapter_calls[c].pc = "done"
    /\ adapter_calls[c].sent = 0

\* call c is the last notification received for its uri that writes the stores
LastStoreCall(c) ==
    /\ c \in StoreCalls(adapter_calls[c].uri)
    /\ \A d \in StoreCalls(adapter_calls[c].uri) : d <= c

\* the stores hold what call c asked for
LocallyApplied(c) ==
    LET uri == adapter_calls[c].uri
        params == adapter_calls[c].params
    IN  CASE adapter_calls[c].op = "did_open" ->
                /\ contains_key(document_data, uri)
                /\ document_data[uri] = DocumentData(params[1], <<>>)
                /\ contains_key(document_states, uri)
                /\ document_states[uri] = params[1]
          [] adapter_calls[c].op = "did_change" ->
                /\ contains_key(document_data, uri)
                /\ document_data[uri].content = params[Len(params)]
                /\ contains_key(document_states, uri)
                /\ document_states[uri] = params[Len(params)]
          [] adapter_calls[c].op = "did_close" ->
                /\ ~contains_key(document_data, uri)
                /\ ~contains_key(document_states, uri)

\* C38: a did_open, did_change or did_close whose forwarding failed, for
\* want of a connection or because the write to the child failed, has
\* updated the adapter's stores all the same, and has returned with nothing
\* but the stores changed.
C38_LocalUpdateWithoutForward ==
    \A c \in DOMAIN adapter_calls :
        (Unforwarded(c) /\ LastStoreCall(c))
            => /\ LocallyApplied(c)
               /\ adapter_calls[c].result = NoValue
               /\ lsp_connection = adapter_calls[c].saw_connection
               /\ child_inbox = <<>>

C38_Witness ==
    \E c, d \in DOMAIN adapter_calls :
        /\ c < d
        /\ adapter_calls[c].op = "did_open" /\ Unforwarded(c)
        /\ adapter_calls[c].saw_connection = <<>>
        /\ adapter_calls[d].op = "did_change" /\ Unforwarded(d) /\ LastStoreCall(d)
        /\ adapter_calls[d].uri = adapter_calls[c].uri
        /\ document_states[adapter_calls[d].uri] # adapter_calls[c].params[1]

====
